---- MODULE Spec2Model ----
(***************************************************************************)
(* A model of az-blob-robber's discovery scanner (pkg/scanner/scanner.go), *)
(* the probes it calls (pkg/azure/client.go) and the consumer of its       *)
(* Results channel (pkg/ui/app.go).                                        *)
(*                                                                         *)
(* Goroutines: one dispatcher (the body of Scanner.Start), one worker per  *)
(* account name (worker w handles AccountNames[w]), and the consumer: the  *)
(* startScanning command that receives one Result, and the Update handler  *)
(* that processes it and re-arms the command.                              *)
(*                                                                         *)
(* The second part models the downloads of pkg/ui/app.go: the key and      *)
(* message handlers of Update, the commands they return (closures over a   *)
(* copy of the model, run by the Bubble Tea runtime in goroutines of their *)
(* own) and the streams and files those commands open.                     *)
(***************************************************************************)
EXTENDS Integers, Sequences, FiniteSets, TLC

\* ------------------------------------------------------------------ bounds
MaxAccounts == 2
MaxContainers == 1
MaxConcurrency == 2
\* the blobs listed in the selected container
MaxFiles == 2
\* a blob is empty, SmallSize bytes long, or one chunk and SmallSize bytes long
SmallSize == 3
\* the transfers the user starts in one run, and the ESC presses during them
MaxTransfers == 1
MaxEsc == 2
\* the calls of singleDownloadStep on a download that is over
MaxExtraSteps == 1
MaxFetches == 1
\* the blobs of the container of the long bulk download
BatchFiles == 5
\* the scan that fills the Results buffer: one account, LongContainers names
LongContainers == 50

\* ------------------------------------------------------- program constants
\* make(chan Result, 100)
ResultsCap == 100

\* make([]byte, 32*1024)
ChunkSize == 32768

\* ResultType (iota)
ResultAccountFound == "AccountFound"
ResultContainerFound == "ContainerFound"
ResultScanFinished == "ScanFinished"
ResultProgressUpdate == "ProgressUpdate"

VARIABLES
    AccountNames,    \* Scanner.AccountNames
    ContainerNames,  \* Scanner.ContainerNames
    Concurrency,     \* Scanner.Concurrency
    Results,         \* Scanner.Results: the buffered events, oldest first
    closed,          \* close(s.Results) has run
    total,           \* Start: total
    progress,        \* Start: progress
    mu,              \* Start: mu, 0 when unlocked, else the worker holding it
    sem,             \* Start: sem, the number of tokens in the channel
    wg,              \* Start: wg, the WaitGroup counter
    dpc,             \* the dispatcher's position
    di,              \* the dispatcher's index into AccountNames
    wpc,             \* worker -> position
    wj,              \* worker -> 0 at the account level, else index into ContainerNames
    wcurrent,        \* worker -> sendProgress: current
    wexists,         \* worker -> scanContainers: exists
    wpublic,         \* worker -> scanContainers: public
    armed,           \* a startScanning command is waiting on <-Results
    inbox,           \* Results received by the command, not yet handled by Update
    isScanning,      \* AppModel.isScanning
    scanProgress,    \* AppModel.scanProgress
    scanTotal,       \* AppModel.scanTotal
    foundItems,      \* AppModel.foundItems
    sent,            \* history: every Result sent on Results, in send order
    received,        \* history: every Result received from Results, in order
    probeLog,        \* history: worker -> the probes that returned, in order
    permitted        \* environment: <<worker, j>> -> the outcomes that probe can have

VARIABLES
    state,                     \* AppModel.state: the focused pane
    files,                     \* the items of AppModel.fileList
    selectedAccount,           \* AppModel.selectedAccount
    selectedContainer,         \* AppModel.selectedContainer
    isLoadingFiles,            \* AppModel.isLoadingFiles
    showModal,                 \* AppModel.showModal
    modalType,                 \* AppModel.modalType
    modalTitle,                \* AppModel.modalTitle
    isSingleDownloading,       \* AppModel.isSingleDownloading
    singleDownloadBytesRead,   \* AppModel.singleDownloadBytesRead
    singleDownloadTotalBytes,  \* AppModel.singleDownloadTotalBytes
    singleDownloadCancelled,   \* AppModel.singleDownloadCancelled
    singleDownloadReader,      \* AppModel.singleDownloadReader: 0 is nil, else a handle
    singleDownloadWriter,      \* AppModel.singleDownloadWriter: 0 is nil, else a handle
    isBulkDownloading,         \* AppModel.isBulkDownloading
    bulkDownloadQueue,         \* AppModel.bulkDownloadQueue
    bulkDownloadTotal,         \* AppModel.bulkDownloadTotal
    bulkDownloadCurrent,       \* AppModel.bulkDownloadCurrent
    bulkCancelRequested,       \* AppModel.bulkCancelRequested
    bulkCurrentBytesRead,      \* AppModel.bulkCurrentBytesRead
    bulkCurrentTotalBytes,     \* AppModel.bulkCurrentTotalBytes
    bulkDownloadSuccesses,     \* AppModel.bulkDownloadSuccesses
    bulkDownloadFailures,      \* AppModel.bulkDownloadFailures
    cmds,                      \* the commands Update returned that have not returned their message
    msgs,                      \* the messages commands returned that Update has not handled
    io,                        \* environment: handle -> the response body and the file of one opening
    steps,                     \* history: every transfer step that returned, in order
    escs,                      \* history: the ESC presses on a progress modal
    transfers                  \* history: the transfers started

vars == <<AccountNames, ContainerNames, Concurrency, Results, closed, total,
          progress, mu, sem, wg, dpc, di, wpc, wj, wcurrent, wexists, wpublic,
          armed, inbox, isScanning, scanProgress, scanTotal, foundItems,
          sent, received, probeLog, permitted,
          state, files, selectedAccount, selectedContainer, isLoadingFiles,
          showModal, modalType, modalTitle,
          isSingleDownloading, singleDownloadBytesRead, singleDownloadTotalBytes,
          singleDownloadCancelled, singleDownloadReader, singleDownloadWriter,
          isBulkDownloading, bulkDownloadQueue, bulkDownloadTotal, bulkDownloadCurrent,
          bulkCancelRequested, bulkCurrentBytesRead, bulkCurrentTotalBytes,
          bulkDownloadSuccesses, bulkDownloadFailures,
          cmds, msgs, io, steps, escs, transfers>>

modalVars == <<showModal, modalType, modalTitle>>
singleVars == <<isSingleDownloading, singleDownloadBytesRead, singleDownloadTotalBytes,
                singleDownloadCancelled, singleDownloadReader, singleDownloadWriter>>
bulkVars == <<isBulkDownloading, bulkDownloadQueue, bulkDownloadTotal, bulkDownloadCurrent,
              bulkCancelRequested, bulkCurrentBytesRead, bulkCurrentTotalBytes,
              bulkDownloadSuccesses, bulkDownloadFailures>>
runtimeVars == <<cmds, msgs, io, steps, escs, transfers>>
listVars == <<files, selectedAccount, selectedContainer, isLoadingFiles>>
downloadVars == <<listVars, modalVars, singleVars, bulkVars, runtimeVars>>
transferVars == <<state, downloadVars>>
scannerVars == <<AccountNames, ContainerNames, Concurrency, Results, closed, total,
                 progress, mu, sem, wg, dpc, di, wpc, wj, wcurrent, wexists, wpublic,
                 armed, inbox, isScanning, scanProgress, scanTotal, foundItems,
                 sent, received, probeLog, permitted>>

scannerCfg == <<AccountNames, ContainerNames, Concurrency, permitted>>
dispatcherVars == <<dpc, di>>
workerLocals == <<wj, wcurrent, wexists, wpublic>>
consumerVars == <<armed, inbox, isScanning, scanProgress, scanTotal, foundItems, received>>

\* ------------------------------------------------------------ the inputs
\* the wordlists: distinct names
AccountName(i) == IF i = 1 THEN "A" ELSE IF i = 2 THEN "B" ELSE "acct" \o ToString(i)
ContainerName(i) == IF i = 1 THEN "web" ELSE IF i = 2 THEN "data" ELSE "c" \o ToString(i)

Accounts(n) == [i \in 1..n |-> AccountName(i)]
Containers(n) == [i \in 1..n |-> ContainerName(i)]

Workers == 1..Len(AccountNames)

\* --------------------------------------------------------------- Result
\* the Result struct; fields a sender leaves out hold Go's zero values
Result(type, account, container, public, prog, tot) ==
    [Type |-> type, AccountName |-> account, ContainerName |-> container,
     IsPublic |-> public, Progress |-> prog, Total |-> tot]

\* the value a receive from a closed, drained channel yields: Type 0 is
\* ResultAccountFound
ZeroResult == Result(ResultAccountFound, "", "", FALSE, 0, 0)

\* ---------------------------------------------------------------- probes
\* what the HTTP round trip of a probe can produce: a transport or DNS
\* error, or a response with a status code
HttpOutcomes == {"error", "200", "403", "404"}

\* Client.CheckAccount: any response at all means the account exists
CheckAccount(outcome) == outcome # "error"

\* Client.CheckContainer: <<exists, public>>
CheckContainer(outcome) ==
    IF outcome = "error" THEN <<FALSE, FALSE>>
    ELSE IF outcome = "200" THEN <<TRUE, TRUE>>
    ELSE IF outcome = "403" THEN <<TRUE, FALSE>>
    ELSE <<FALSE, FALSE>>

\* ------------------------------------------------------------ the channel
\* s.Results <- r: the sender blocks while the buffer is full
CanSend == Len(Results) < ResultsCap

\* mutant: a non-blocking send (select with default) that gives up on a full buffer
SendDropWhenFull(r) ==
    /\ Results' = IF CanSend THEN Append(Results, r) ELSE Results
    /\ sent' = Append(sent, r)

Send(r) ==
    /\ CanSend
    /\ Results' = Append(Results, r)
    /\ sent' = Append(sent, r)

\* ------------------------------------------------------------------ Init
\* sessionState (iota)
stateScanning == "stateScanning"
stateExploring == "stateExploring"

\* NewAppModel: nothing listed, no modal, no download
NoDownload ==
    /\ showModal = FALSE
    /\ modalType = 0
    /\ modalTitle = ""
    /\ isSingleDownloading = FALSE
    /\ singleDownloadBytesRead = 0
    /\ singleDownloadTotalBytes = 0
    /\ singleDownloadCancelled = FALSE
    /\ singleDownloadReader = 0
    /\ singleDownloadWriter = 0
    /\ isBulkDownloading = FALSE
    /\ bulkDownloadQueue = <<>>
    /\ bulkDownloadTotal = 0
    /\ bulkDownloadCurrent = 0
    /\ bulkCancelRequested = FALSE
    /\ bulkCurrentBytesRead = 0
    /\ bulkCurrentTotalBytes = 0
    /\ bulkDownloadSuccesses = 0
    /\ bulkDownloadFailures = <<>>
    /\ cmds = {}
    /\ msgs = {}
    /\ io = <<>>
    /\ steps = <<>>
    /\ escs = 0
    /\ transfers = 0

\* the container whose files the right pane shows, none for ""
Selected(account, container) ==
    /\ selectedAccount = account
    /\ selectedContainer = container
    /\ isLoadingFiles = FALSE

InitWith(na, nc, conc, perm) ==
    /\ state = stateScanning
    /\ files = <<>>
    /\ Selected("", "")
    /\ NoDownload
    /\ AccountNames = Accounts(na)
    /\ ContainerNames = Containers(nc)
    /\ Concurrency = conc
    /\ permitted = perm
    /\ Results = <<>>
    /\ closed = FALSE
    /\ total = 0
    /\ progress = 0
    /\ mu = 0
    /\ sem = 0
    /\ wg = 0
    /\ dpc = "start"
    /\ di = 1
    /\ wpc = [w \in 1..na |-> "idle"]
    /\ wj = [w \in 1..na |-> 0]
    /\ wcurrent = [w \in 1..na |-> 0]
    /\ wexists = [w \in 1..na |-> FALSE]
    /\ wpublic = [w \in 1..na |-> FALSE]
    /\ armed = TRUE
    /\ inbox = <<>>
    /\ isScanning = TRUE
    /\ scanProgress = 0
    /\ scanTotal = 0
    /\ foundItems = <<>>
    /\ sent = <<>>
    /\ received = <<>>
    /\ probeLog = [w \in 1..na |-> <<>>]

\* any outcome for every probe
AnyOutcome(na, nc) == [t \in (1..na) \X (0..nc) |-> HttpOutcomes]

\* scans of up to MaxAccounts x MaxContainers names against any store; main
\* exits when a wordlist is empty, so both lists have at least one name
InitAny ==
    \E na \in 1..MaxAccounts, nc \in 1..MaxContainers, conc \in 0..MaxConcurrency :
        InitWith(na, nc, conc, AnyOutcome(na, nc))

\* the end-to-end example: 2 accounts x 3 containers; account A exists with the
\* public container "web" and the private container "data", its third container
\* is not found (a 404, or no response) and account B does not resolve
ExampleOutcome ==
    [t \in (1..2) \X (0..3) |->
        IF t[1] = 2 THEN (IF t[2] = 0 THEN {"error"} ELSE HttpOutcomes)
        ELSE IF t[2] = 0 THEN {"200"}
        ELSE IF t[2] = 1 THEN {"200"}
        ELSE IF t[2] = 2 THEN {"403"}
        ELSE {"404", "error"}]

InitExample ==
    \E conc \in 1..MaxConcurrency : InitWith(2, 3, conc, ExampleOutcome)

\* one account with LongContainers public containers: more events than the
\* Results buffer holds
InitLong ==
    InitWith(1, LongContainers, 1, [t \in (1..1) \X (0..LongContainers) |-> {"200"}])

Init == InitAny \/ InitExample \/ InitLong

\* the two named scans alone
InitScenarios == InitExample \/ InitLong

\* the named scans, and any store for the scans of one account or with at
\* most one token
InitFair ==
    \/ InitScenarios
    \/ \E na \in 1..MaxAccounts, nc \in 1..MaxContainers, conc \in 0..MaxConcurrency :
        (na = 1 \/ conc <= 1) /\ InitWith(na, nc, conc, AnyOutcome(na, nc))

\* ------------------------------------------------------------ dispatcher
\* Start: total := len(AccountNames) * len(ContainerNames); progress := 0
StartScan ==
    /\ dpc = "start"
    /\ total' = Len(AccountNames) * Len(ContainerNames)
    /\ progress' = 0
    /\ dpc' = "loop"
    /\ UNCHANGED <<transferVars, scannerCfg, Results, closed, mu, sem, wg, di, wpc, workerLocals,
                   consumerVars, sent, probeLog>>

\* for _, acc := range s.AccountNames { wg.Add(1) ...
LoopNext ==
    /\ dpc = "loop"
    /\ di <= Len(AccountNames)
    /\ wg' = wg + 1
    /\ dpc' = "acquire"
    /\ UNCHANGED <<transferVars, scannerCfg, Results, closed, total, progress, mu, sem, di, wpc,
                   workerLocals, consumerVars, sent, probeLog>>

\* mutant: the token is taken without waiting for room in the semaphore
AcquireTokenUnbounded ==
    /\ dpc = "acquire"
    /\ sem' = sem + 1
    /\ dpc' = "go"
    /\ UNCHANGED <<transferVars, scannerCfg, Results, closed, total, progress, mu, wg, di, wpc,
                   workerLocals, consumerVars, sent, probeLog>>

\* sem <- struct{}{}: blocks while the semaphore holds Concurrency tokens (with
\* Concurrency = 0 the channel is unbuffered and no receiver is ever waiting
\* when the dispatcher sends)
AcquireToken ==
    /\ dpc = "acquire"
    /\ sem < Concurrency
    /\ sem' = sem + 1
    /\ dpc' = "go"
    /\ UNCHANGED <<transferVars, scannerCfg, Results, closed, total, progress, mu, wg, di, wpc,
                   workerLocals, consumerVars, sent, probeLog>>

\* go func(accountName string) {...}(acc)
SpawnWorker ==
    /\ dpc = "go"
    /\ wpc' = [wpc EXCEPT ![di] = "lockInc"]
    /\ di' = di + 1
    /\ dpc' = "loop"
    /\ UNCHANGED <<transferVars, scannerCfg, Results, closed, total, progress, mu, sem, wg,
                   workerLocals, consumerVars, sent, probeLog>>

\* the range is exhausted; wg.Wait() is next
LoopExit ==
    /\ dpc = "loop"
    /\ di > Len(AccountNames)
    /\ dpc' = "wait"
    /\ UNCHANGED <<transferVars, scannerCfg, Results, closed, total, progress, mu, sem, wg, di, wpc,
                   workerLocals, consumerVars, sent, probeLog>>

\* mutant: ScanFinished is sent without waiting for the workers
WaitWorkersNoWait ==
    /\ dpc = "wait"
    /\ dpc' = "finish"
    /\ UNCHANGED <<transferVars, scannerCfg, Results, closed, total, progress, mu, sem, wg, di, wpc,
                   workerLocals, consumerVars, sent, probeLog>>

\* wg.Wait() returns when the counter is zero
WaitWorkers ==
    /\ dpc = "wait"
    /\ wg = 0
    /\ dpc' = "finish"
    /\ UNCHANGED <<transferVars, scannerCfg, Results, closed, total, progress, mu, sem, wg, di, wpc,
                   workerLocals, consumerVars, sent, probeLog>>

\* s.Results <- Result{Type: ResultScanFinished}
SendScanFinished ==
    /\ dpc = "finish"
    /\ Send(Result(ResultScanFinished, "", "", FALSE, 0, 0))
    /\ dpc' = "close"
    /\ UNCHANGED <<transferVars, scannerCfg, closed, total, progress, mu, sem, wg, di, wpc,
                   workerLocals, consumerVars, probeLog>>

\* defer close(s.Results)
CloseResults ==
    /\ dpc = "close"
    /\ closed' = TRUE
    /\ dpc' = "exited"
    /\ UNCHANGED <<transferVars, scannerCfg, Results, total, progress, mu, sem, wg, di, wpc,
                   workerLocals, consumerVars, sent, probeLog>>

\* --------------------------------------------------------------- workers
\* mu.Lock(); progress++  (worker body line 86-87, scanContainers line 111-112)
LockInc(w) ==
    /\ wpc[w] = "lockInc"
    /\ mu = 0
    /\ mu' = w
    /\ progress' = progress + 1
    /\ wpc' = [wpc EXCEPT ![w] = "unlockInc"]
    /\ UNCHANGED <<transferVars, scannerCfg, Results, closed, total, sem, wg, dispatcherVars,
                   workerLocals, consumerVars, sent, probeLog>>

\* mu.Unlock() after the increment; sendProgress() is called next
UnlockInc(w) ==
    /\ wpc[w] = "unlockInc"
    /\ mu = w
    /\ mu' = 0
    /\ wpc' = [wpc EXCEPT ![w] = "lockRead"]
    /\ UNCHANGED <<transferVars, scannerCfg, Results, closed, total, progress, sem, wg, dispatcherVars,
                   workerLocals, consumerVars, sent, probeLog>>

\* sendProgress: mu.Lock(); current := progress
LockRead(w) ==
    /\ wpc[w] = "lockRead"
    /\ mu = 0
    /\ mu' = w
    /\ wcurrent' = [wcurrent EXCEPT ![w] = progress]
    /\ wpc' = [wpc EXCEPT ![w] = "unlockRead"]
    /\ UNCHANGED <<transferVars, scannerCfg, Results, closed, total, progress, sem, wg, dispatcherVars,
                   wj, wexists, wpublic, consumerVars, sent, probeLog>>

\* sendProgress: mu.Unlock()
UnlockRead(w) ==
    /\ wpc[w] = "unlockRead"
    /\ mu = w
    /\ mu' = 0
    /\ wpc' = [wpc EXCEPT ![w] = "sendProgress"]
    /\ UNCHANGED <<transferVars, scannerCfg, Results, closed, total, progress, sem, wg, dispatcherVars,
                   workerLocals, consumerVars, sent, probeLog>>

\* sendProgress: s.Results <- Result{Type: ResultProgressUpdate, Progress: current,
\* Total: total}; the caller's probe is called next
SendProgress(w) ==
    /\ wpc[w] = "sendProgress"
    /\ Send(Result(ResultProgressUpdate, "", "", FALSE, wcurrent[w], total))
    /\ wpc' = [wpc EXCEPT ![w] = IF wj[w] = 0 THEN "checkAccount" ELSE "checkContainer"]
    /\ UNCHANGED <<transferVars, scannerCfg, closed, total, progress, mu, sem, wg, dispatcherVars,
                   workerLocals, consumerVars, probeLog>>

\* the position after the body of scanContainers' loop for index j (j = 0: the
\* loop is entered): the next container's increment, or the worker's deferred calls
AfterContainer(j) == IF j + 1 <= Len(ContainerNames) THEN "lockInc" ELSE "release"

\* client.CheckAccount(accountName) returns; false skips to the deferred calls
CheckAccountReturn(w) ==
    /\ wpc[w] = "checkAccount"
    /\ \E outcome \in permitted[<<w, 0>>] :
        /\ probeLog' = [probeLog EXCEPT ![w] =
               Append(@, [kind |-> "account", name |-> AccountNames[w], failed |-> outcome = "error",
                          exists |-> CheckAccount(outcome), public |-> FALSE])]
        /\ wpc' = [wpc EXCEPT ![w] =
               IF CheckAccount(outcome) THEN "sendAccountFound" ELSE "release"]
    /\ UNCHANGED <<transferVars, scannerCfg, Results, closed, total, progress, mu, sem, wg,
                   dispatcherVars, workerLocals, consumerVars, sent>>

\* mutant: the worker goes on to scanContainers without sending AccountFound
SendAccountFoundSkipped(w) ==
    /\ wpc[w] = "sendAccountFound"
    /\ wpc' = [wpc EXCEPT ![w] = AfterContainer(0)]
    /\ wj' = [wj EXCEPT ![w] = IF AfterContainer(0) = "lockInc" THEN 1 ELSE @]
    /\ UNCHANGED <<transferVars, scannerCfg, Results, closed, total, progress, mu, sem, wg,
                   dispatcherVars, wcurrent, wexists, wpublic, consumerVars, sent,
                   probeLog>>

\* s.Results <- Result{Type: ResultAccountFound, AccountName: accountName}, then
\* s.scanContainers(...) starts its loop
SendAccountFound(w) ==
    /\ wpc[w] = "sendAccountFound"
    /\ Send(Result(ResultAccountFound, AccountNames[w], "", FALSE, 0, 0))
    /\ wpc' = [wpc EXCEPT ![w] = AfterContainer(0)]
    /\ wj' = [wj EXCEPT ![w] = IF AfterContainer(0) = "lockInc" THEN 1 ELSE @]
    /\ UNCHANGED <<transferVars, scannerCfg, closed, total, progress, mu, sem, wg, dispatcherVars,
                   wcurrent, wexists, wpublic, consumerVars, probeLog>>

\* mutant: only public containers are reported
SendsContainerFoundPublicOnly(exists, public) == exists /\ public

\* whether scanContainers sends ContainerFound for a probe result
SendsContainerFound(exists, public) == exists

\* exists, public := client.CheckContainer(accountName, cont) returns; if exists
\* is false the loop goes on to the next container
CheckContainerReturn(w) ==
    /\ wpc[w] = "checkContainer"
    /\ \E outcome \in permitted[<<w, wj[w]>>] :
        LET res == CheckContainer(outcome)
            found == SendsContainerFound(res[1], res[2])
        IN  /\ wexists' = [wexists EXCEPT ![w] = res[1]]
            /\ wpublic' = [wpublic EXCEPT ![w] = res[2]]
            /\ probeLog' = [probeLog EXCEPT ![w] =
                   Append(@, [kind |-> "container", name |-> ContainerNames[wj[w]],
                              failed |-> outcome = "error", exists |-> res[1],
                              public |-> res[2]])]
            /\ wpc' = [wpc EXCEPT ![w] =
                   IF found THEN "sendContainerFound" ELSE AfterContainer(wj[w])]
            /\ wj' = [wj EXCEPT ![w] =
                   IF ~found /\ AfterContainer(@) = "lockInc" THEN @ + 1 ELSE @]
    /\ UNCHANGED <<transferVars, scannerCfg, Results, closed, total, progress, mu, sem, wg,
                   dispatcherVars, wcurrent, consumerVars, sent>>

\* s.Results <- Result{Type: ResultContainerFound, AccountName: accountName,
\* ContainerName: cont, IsPublic: public}; then the next container
SendContainerFound(w) ==
    /\ wpc[w] = "sendContainerFound"
    /\ Send(Result(ResultContainerFound, AccountNames[w], ContainerNames[wj[w]],
                   wpublic[w], 0, 0))
    /\ wpc' = [wpc EXCEPT ![w] = AfterContainer(wj[w])]
    /\ wj' = [wj EXCEPT ![w] = IF AfterContainer(@) = "lockInc" THEN @ + 1 ELSE @]
    /\ UNCHANGED <<transferVars, scannerCfg, closed, total, progress, mu, sem, wg, dispatcherVars,
                   wcurrent, wexists, wpublic, consumerVars, probeLog>>

\* mutant: the worker returns without giving its token back
ReleaseTokenLeaked(w) ==
    /\ wpc[w] = "release"
    /\ wpc' = [wpc EXCEPT ![w] = "wgDone"]
    /\ UNCHANGED <<transferVars, scannerCfg, Results, closed, total, progress, mu, sem, wg,
                   dispatcherVars, workerLocals, consumerVars, sent, probeLog>>

\* defer func() { <-sem }(): registered last, so it runs first
ReleaseToken(w) ==
    /\ wpc[w] = "release"
    /\ sem > 0
    /\ sem' = sem - 1
    /\ wpc' = [wpc EXCEPT ![w] = "wgDone"]
    /\ UNCHANGED <<transferVars, scannerCfg, Results, closed, total, progress, mu, wg, dispatcherVars,
                   workerLocals, consumerVars, sent, probeLog>>

\* defer wg.Done(): registered first, so it runs last; the goroutine returns
WgDone(w) ==
    /\ wpc[w] = "wgDone"
    /\ wg' = wg - 1
    /\ wpc' = [wpc EXCEPT ![w] = "returned"]
    /\ UNCHANGED <<transferVars, scannerCfg, Results, closed, total, progress, mu, sem, dispatcherVars,
                   workerLocals, consumerVars, sent, probeLog>>

\* -------------------------------------------------------------- consumer
\* startScanning's command: return <-m.scanner.Results. A receive from the
\* closed, drained channel yields the zero Result.
ReceiveResult ==
    /\ armed
    /\ Len(Results) > 0 \/ closed
    /\ LET msg == IF Len(Results) > 0 THEN Head(Results) ELSE ZeroResult
       IN  /\ inbox' = Append(inbox, msg)
           /\ received' = Append(received, msg)
    /\ Results' = IF Len(Results) > 0 THEN Tail(Results) ELSE Results
    /\ armed' = FALSE
    /\ UNCHANGED <<transferVars, scannerCfg, closed, total, progress, mu, sem, wg, dispatcherVars, wpc,
                   workerLocals, isScanning, scanProgress, scanTotal, foundItems,
                   sent, probeLog>>

\* Update, case scanner.Result: whether m.foundItems has the account's header
accountHeaderExists(items, account) ==
    \E i \in 1..Len(items) :
        items[i].Type = ResultAccountFound /\ items[i].AccountName = account

\* mutant: private containers are listed too
AddContainerAny(items, msg) ==
    IF accountHeaderExists(items, msg.AccountName) THEN Append(items, msg)
    ELSE Append(Append(items, Result(ResultAccountFound, msg.AccountName, "", FALSE, 0, 0)),
                msg)

\* Update, case scanner.Result: m.foundItems after a ContainerFound message
AddContainer(items, msg) ==
    IF ~msg.IsPublic THEN items
    ELSE IF accountHeaderExists(items, msg.AccountName) THEN Append(items, msg)
    ELSE Append(Append(items, Result(ResultAccountFound, msg.AccountName, "", FALSE, 0, 0)),
                msg)

\* mutant: ScanFinished returns the command too
RearmsAlways(msg) == TRUE

\* Update, case scanner.Result: every message but ScanFinished returns
\* m.startScanning()
Rearms(msg) == msg.Type # ResultScanFinished

\* Update, case scanner.Result: every message but ScanFinished re-arms the command
UpdateResult ==
    /\ Len(inbox) > 0
    /\ LET msg == Head(inbox)
       IN  /\ inbox' = Tail(inbox)
           /\ isScanning' = IF msg.Type = ResultScanFinished THEN FALSE ELSE isScanning
           /\ armed' = Rearms(msg)
           /\ scanProgress' = IF msg.Type = ResultProgressUpdate THEN msg.Progress
                              ELSE scanProgress
           /\ scanTotal' = IF msg.Type = ResultProgressUpdate THEN msg.Total ELSE scanTotal
           /\ foundItems' = IF msg.Type = ResultContainerFound
                            THEN AddContainer(foundItems, msg) ELSE foundItems
           /\ state' = IF msg.Type = ResultScanFinished THEN stateScanning ELSE state
    /\ UNCHANGED <<downloadVars, scannerCfg, Results, closed, total, progress, mu, sem, wg,
                   dispatcherVars, wpc, workerLocals, sent, received, probeLog, permitted>>

\* ------------------------------------------------------------------ Next
Next ==
    \/ StartScan
    \/ LoopNext
    \/ AcquireToken
    \/ SpawnWorker
    \/ LoopExit
    \/ WaitWorkers
    \/ SendScanFinished
    \/ CloseResults
    \/ \E w \in Workers : LockInc(w)
    \/ \E w \in Workers : UnlockInc(w)
    \/ \E w \in Workers : LockRead(w)
    \/ \E w \in Workers : UnlockRead(w)
    \/ \E w \in Workers : SendProgress(w)
    \/ \E w \in Workers : CheckAccountReturn(w)
    \/ \E w \in Workers : SendAccountFound(w)
    \/ \E w \in Workers : CheckContainerReturn(w)
    \/ \E w \in Workers : SendContainerFound(w)
    \/ \E w \in Workers : ReleaseToken(w)
    \/ \E w \in Workers : WgDone(w)
    \/ ReceiveResult
    \/ UpdateResult

Spec == Init /\ [][Next]_vars

SpecScenarios == InitScenarios /\ [][Next]_vars

\* the scheduler runs every goroutine that can take a step, every probe call
\* returns and the consumer keeps receiving
FairSpec == InitFair /\ [][Next]_vars /\ WF_vars(Next)

\* NewScanner takes any lists and any Concurrency: the scans that cannot
\* run two workers at once, among them those of an empty account list (which
\* main never passes) and those without a token
InitDegenerate ==
    \E na \in 0..MaxAccounts, nc \in 1..MaxContainers, conc \in 0..MaxConcurrency :
        (na <= 1 \/ conc = 0) /\ InitWith(na, nc, conc, AnyOutcome(na, nc))

SpecDegenerate == InitDegenerate /\ [][Next]_vars

\* two accounts, each with the same two public containers, scanned by two
\* workers at once
InitInterleaved == InitWith(2, 2, 2, [t \in (1..2) \X (0..2) |-> {"200"}])

\* the schedules in which the consumer is quick: an event is received and
\* handled before the scanner takes its next step
NextInterleaved ==
    \/ ReceiveResult
    \/ UpdateResult
    \/ Results = <<>> /\ inbox = <<>> /\ Next

SpecInterleaved == InitInterleaved /\ [][NextInterleaved]_vars

\* ================================================================ claims
TypeCount(seq, type) == Cardinality({i \in 1..Len(seq) : seq[i].Type = type})

ScanFinishedSent == TypeCount(sent, ResultScanFinished) > 0

AllReturned == \A w \in Workers : wpc[w] = "returned"

\* the Progress values of the ProgressUpdate events of seq, in order
ProgressValues(seq) ==
    LET IsProgress(r) == r.Type = ResultProgressUpdate
        ups == SelectSeq(seq, IsProgress)
    IN  [i \in 1..Len(ups) |-> ups[i].Progress]

\* C1: at most one ScanFinished is ever sent and exactly one once the
\* dispatcher is past its send; when it has been sent every worker has
\* returned and it is the last event sent (so nothing is sent after it); the
\* channel is closed only after it.
C1_ScanFinishedOnceAndLast ==
    /\ TypeCount(sent, ResultScanFinished) <= 1
    /\ dpc \in {"close", "exited"} => TypeCount(sent, ResultScanFinished) = 1
    /\ ScanFinishedSent => AllReturned /\ sent[Len(sent)].Type = ResultScanFinished
    /\ closed => ScanFinishedSent /\ dpc = "exited"

C1_Witness ==
    /\ closed
    /\ Len(AccountNames) = 2
    /\ TypeCount(sent, ResultContainerFound) = 2
    /\ sent[Len(sent)].Type = ResultScanFinished

\* C2: the Progress values of the ProgressUpdate events, in the order they are
\* received from Results, are non-decreasing.
C2_ReceivedProgressMonotonic ==
    LET p == ProgressValues(received)
    IN  \A i \in 1..Len(p) : \A k \in 1..Len(p) : i < k => p[i] <= p[k]

\* C3: every ProgressUpdate sent has Progress <= Total and
\* Total = len(AccountNames) * len(ContainerNames).
C3_ProgressAtMostTotal ==
    \A i \in 1..Len(sent) :
        sent[i].Type = ResultProgressUpdate =>
            /\ sent[i].Total = Len(AccountNames) * Len(ContainerNames)
            /\ sent[i].Progress <= sent[i].Total

\* C4: when ScanFinished has been received, the last ProgressUpdate received
\* before it carries Progress = |accounts| x |containers|.
C4_FinalProgressIsTotal ==
    LET p == ProgressValues(received)
    IN  (TypeCount(received, ResultScanFinished) > 0 /\ Len(p) > 0) =>
            p[Len(p)] = Len(AccountNames) * Len(ContainerNames)

\* the ContainerFound events sent for worker w's account, in send order, as
\* <<container, IsPublic>>
FoundOf(w) ==
    LET Mine(r) == r.Type = ResultContainerFound /\ r.AccountName = AccountNames[w]
        evs == SelectSeq(sent, Mine)
    IN  [i \in 1..Len(evs) |-> <<evs[i].ContainerName, evs[i].IsPublic>>]

\* worker w's container probes that returned exists = true, in probe order, as
\* <<container, public>>
ExistingOf(w) ==
    LET Hit(e) == e.kind = "container" /\ e.exists
        es == SelectSeq(probeLog[w], Hit)
    IN  [i \in 1..Len(es) |-> <<es[i].name, es[i].public>>]

\* worker w's container probes that returned exists = true and public = true
PublicOf(w) ==
    LET Hit(e) == e.kind = "container" /\ e.exists /\ e.public
        es == SelectSeq(probeLog[w], Hit)
    IN  [i \in 1..Len(es) |-> <<es[i].name, es[i].public>>]

\* all but the last element when the worker has yet to send for its last probe
Settled(w, hits) ==
    IF wpc[w] = "sendContainerFound" /\ Len(hits) > 0
    THEN SubSeq(hits, 1, Len(hits) - 1) ELSE hits

C6_ContainerAfterAccount ==
    /\ \A i \in 1..Len(received) :
        received[i].Type = ResultContainerFound =>
            \E k \in 1..(i - 1) :
                /\ received[k].Type = ResultAccountFound
                /\ received[k].AccountName = received[i].AccountName
    /\ \A i \in 1..Len(sent) :
        sent[i].Type = ResultContainerFound =>
            \E w \in Workers :
                /\ AccountNames[w] = sent[i].AccountName
                /\ Len(probeLog[w]) > 0
                /\ probeLog[w][1].kind = "account"
                /\ probeLog[w][1].exists

\* two accounts' events interleaved: A's AccountFound, B's ContainerFound,
\* then A's ContainerFound
C6_Witness ==
    \E i \in 1..Len(received), k \in 1..Len(received), m \in 1..Len(received) :
        /\ i < k /\ k < m
        /\ received[i].Type = ResultAccountFound
        /\ received[k].Type = ResultContainerFound
        /\ received[m].Type = ResultContainerFound
        /\ received[k].AccountName # received[i].AccountName
        /\ received[m].AccountName = received[i].AccountName

\* workers started whose goroutine has not returned
NotReturned == {w \in Workers : wpc[w] \notin {"idle", "returned"}}

\* workers started that have not yet given their token back
HoldingToken == {w \in Workers : wpc[w] \notin {"idle", "wgDone", "returned"}}

\* the names of the container probes of worker w that have returned, in order
ProbedContainers(w) ==
    LET IsCont(e) == e.kind = "container"
        es == SelectSeq(probeLog[w], IsCont)
    IN  [i \in 1..Len(es) |-> es[i].name]

\* each worker probes its account first, then the containers one at a time in
\* the order of ContainerNames: the probe in flight is the one after those
\* that have returned
ProbesInOrder ==
    \A w \in Workers :
        /\ Len(probeLog[w]) > 0 => probeLog[w][1].kind = "account"
        /\ ProbedContainers(w) = SubSeq(ContainerNames, 1, Len(ProbedContainers(w)))
        /\ wpc[w] = "checkContainer" => wj[w] = Len(ProbedContainers(w)) + 1
        /\ wpc[w] = "checkAccount" => probeLog[w] = <<>>

\* C7 as stated: the workers started and not yet returned number at most
\* Concurrency, and each worker probes its containers one at a time in order.
C7_NotReturnedBounded ==
    /\ Cardinality(NotReturned) <= Concurrency
    /\ ProbesInOrder

\* C7 amended: the workers started that have not yet given their semaphore
\* token back number at most Concurrency (a worker that has released its token
\* and not yet called wg.Done is not counted), and each worker probes its
\* containers one at a time in order.
C7_TokenHoldersBounded ==
    /\ Cardinality(HoldingToken) <= sem
    /\ sem <= Concurrency
    /\ ProbesInOrder

\* a worker that has released its token has not yet returned while the next
\* worker, started with that token, is probing
C7_Witness ==
    /\ Concurrency = 1
    /\ \E w \in Workers, v \in Workers :
        /\ wpc[w] = "wgDone"
        /\ wpc[v] = "checkContainer"
        /\ Len(ProbedContainers(v)) = 0

\* C8: the events received followed by the events buffered are exactly the
\* events sent, in send order (none lost, duplicated or reordered); the buffer
\* never holds more than its capacity; once ScanFinished is received every
\* event sent has been received.
C8_NoEventLost ==
    /\ received \o Results = sent
    /\ Len(Results) <= ResultsCap
    /\ TypeCount(received, ResultScanFinished) > 0 => received = sent /\ Results = <<>>

\* a worker waits to send on the full buffer
C8_Witness ==
    /\ Len(Results) = ResultsCap
    /\ \E w \in Workers :
        wpc[w] \in {"sendProgress", "sendAccountFound", "sendContainerFound"}

\* C9: with Concurrency >= 1 the scan eventually sends ScanFinished, whatever
\* the probes return; a probe that ends in a transport or DNS error is
\* recorded as "does not exist".
C9_EventuallyFinished ==
    /\ (Concurrency >= 1) => <>ScanFinishedSent
    /\ [](\A w \in Workers : \A i \in 1..Len(probeLog[w]) :
            probeLog[w][i].failed => ~probeLog[w][i].exists)

\* the scan finished although an account probe and a container probe failed
C9_Witness ==
    /\ ScanFinishedSent
    /\ Len(AccountNames) = 2
    /\ \E w \in Workers : \E i \in 1..Len(probeLog[w]) :
        probeLog[w][i].kind = "account" /\ probeLog[w][i].failed
    /\ \E w \in Workers : \E i \in 1..Len(probeLog[w]) :
        probeLog[w][i].kind = "container" /\ probeLog[w][i].failed

\* C10: the scan of the example ends having sent six ProgressUpdate events
\* reaching 6/6, AccountFound{A} once, ContainerFound{A, web, true} once and no
\* other finding, and ScanFinished once.
C10_ExampleEvents ==
    (permitted = ExampleOutcome /\ dpc = "exited") =>
        LET p == ProgressValues(sent)
        IN  /\ Len(p) = 6
            /\ \E i \in 1..Len(p) : p[i] = 6
            /\ \A i \in 1..Len(p) : p[i] <= 6
            /\ total = 6
            /\ TypeCount(sent, ResultAccountFound) = 1
            /\ \E i \in 1..Len(sent) :
                sent[i] = Result(ResultAccountFound, "A", "", FALSE, 0, 0)
            /\ TypeCount(sent, ResultContainerFound) = 1
            /\ \E i \in 1..Len(sent) :
                sent[i] = Result(ResultContainerFound, "A", "web", TRUE, 0, 0)
            /\ TypeCount(sent, ResultScanFinished) = 1

\* ============================================================== downloads
\* ------------------------------------------------------------ the listing
FileName(i) == "f" \o ToString(i)

\* FileItem: the blob's name and Properties.ContentLength, and whether the
\* entry is a history entry shown under its blob. VersionId is "" and
\* IsCurrentVersion is absent (FALSE) in a container without versioning
FileItem(name, isVersion, size) ==
    [Name |-> name, IsVersion |-> isVersion, ContentLength |-> size,
     VersionId |-> "", IsCurrentVersion |-> FALSE]

\* Blob: an entry of the listing of a container with versioning
Blob(name, versionId, isCurrent, size) ==
    [Name |-> name, VersionId |-> versionId, IsCurrentVersion |-> isCurrent,
     ContentLength |-> size]

NoFile == FileItem("", FALSE, 0)

\* blob names with a parent directory in them: one that leaves the
\* container's directory and one that stays inside it
EscapingName == "../f1"
NestedName == "d/../f2"

\* a blob name split at its slashes
PathSegments(name) ==
    IF name = EscapingName THEN <<"..", "f1">>
    ELSE IF name = NestedName THEN <<"d", "..", "f2">>
    ELSE <<name>>

\* filepath.Clean on a relative path: ".." removes the element before it,
\* unless there is none or it is ".." itself
RECURSIVE CleanOnto(_, _)
CleanOnto(done, rest) ==
    IF rest = <<>> THEN done
    ELSE IF Head(rest) = ".." /\ done # <<>> /\ done[Len(done)] # ".."
    THEN CleanOnto(SubSeq(done, 1, Len(done) - 1), Tail(rest))
    ELSE CleanOnto(Append(done, Head(rest)), Tail(rest))

\* downloadNextFile: strings.Contains(filepath.Clean(fileItem.Name), "..")
InvalidFilename(name) ==
    \E i \in 1..Len(CleanOnto(<<>>, PathSegments(name))) :
        CleanOnto(<<>>, PathSegments(name))[i] = ".."

SourceSizes == {0, SmallSize, ChunkSize + SmallSize}

Min(a, b) == IF a < b THEN a ELSE b

\* ------------------------------------------------- streams and files
\* the steps of opening: os.MkdirAll, Client.DownloadBlob, os.Create; the
\* outcome names the one that failed
OpenOutcomes == {"mkdir", "open", "create", "ok"}

\* mutant: the body stays open when os.Create fails
HandleBodyLeftOpen(kind, file, outcome) ==
    [kind |-> kind, name |-> file.Name, outcome |-> outcome, left |-> file.ContentLength,
     reads |-> 0, rcloses |-> 0, sink |-> outcome = "ok",
     written |-> 0, wcloses |-> 0, hit |-> FALSE, truncated |-> FALSE]

\* what one attempt to open a transfer left behind: the response body, with
\* left bytes still to be read, and the file (sink says whether os.Create
\* made one). reads counts the Read calls that returned, rcloses and wcloses
\* the Close calls, and hit says that a Close ran during a Read. When
\* os.Create fails the command closes the body at once. truncated says that
\* os.Create found a file at the path and emptied it; the model follows
\* this for single downloads
Handle(kind, file, outcome) ==
    [kind |-> kind, name |-> file.Name, outcome |-> outcome, left |-> file.ContentLength,
     reads |-> 0, rcloses |-> IF outcome = "create" THEN 1 ELSE 0, sink |-> outcome = "ok",
     written |-> 0, wcloses |-> 0, hit |-> FALSE, truncated |-> FALSE]

\* io.Reader: what one Read into a ChunkSize buffer can return from a body
\* with left bytes to go: some bytes and no error, the last bytes together
\* with io.EOF, or a transport error after some or no bytes
ReadSizes(left) == {n \in {Min(left, ChunkSize), Min(left, ChunkSize) - 1} : n >= 1}

ReadOutcomes(left) ==
    {<<n, "">> : n \in ReadSizes(left)}
        \cup (IF left <= ChunkSize THEN {<<left, "EOF">>} ELSE {})
        \cup {<<n, "read">> : n \in {0, Min(left, ChunkSize)}}

\* a Read of a closed body fails
ClosedRead == <<0, "closed">>

\* io.Writer: the bytes a Write of n bytes stores; fewer than n comes with an error
WriteOutcomes(n) == {k \in {0, n - 1, n} : k >= 0}

\* ------------------------------------------------- commands and messages
\* a command: the closure and the copy of the model it captured. pc is
\* "pending" until the runtime runs it and "reading" while its Read is in
\* flight; flagAtBegin and closedAtBegin record what the step found when it
\* began, session the opening the command belongs to, and extra that it is
\* not a command Update returned. account and container are the arguments
\* of fetchFiles and fetchVersions. confirmed says that Update returned the
\* command for the answer 'y' to the overwrite prompt (modalType 1); no
\* handler shows that prompt, so no command has it
Cmd(kind, file, reader, writer, cancelled, bytes, totalBytes, current, tot) ==
    [kind |-> kind, pc |-> "pending", session |-> reader, extra |-> FALSE,
     confirmed |-> FALSE, file |-> file,
     reader |-> reader, writer |-> writer,
     cancelled |-> cancelled, bytes |-> bytes, totalBytes |-> totalBytes,
     current |-> current, total |-> tot, flagAtBegin |-> FALSE, closedAtBegin |-> FALSE,
     account |-> "", container |-> ""]

\* SingleDownloadStartedMsg, SingleDownloadProgressMsg, BulkDownloadProgressMsg;
\* Err is "" for nil. h is the Reader and Writer of a SingleDownloadStartedMsg;
\* in a progress message it is history: the opening the step belongs to;
\* extra says that the step's command was not one Update returned. account
\* and container are history too: the arguments of the fetchFiles or
\* fetchVersions that made the message, which the message does not carry
Msg(type, h, bytes, totalB, done, err, current, tot, file) ==
    [type |-> type, h |-> h, extra |-> FALSE, Bytes |-> bytes, TotalB |-> totalB, Done |-> done,
     Err |-> err, Current |-> current, Total |-> tot, File |-> file, Blobs |-> <<>>,
     account |-> "", container |-> ""]

\* one entry of steps
Step(c, flag, read, n, rerr, wrote, k, before, after, closes, done, err) ==
    [kind |-> c.kind, h |-> c.session, extra |-> c.extra, file |-> c.file.Name, snapshot |-> c.cancelled, flag |-> flag,
     closedAtBegin |-> c.closedAtBegin, read |-> read, n |-> n, rerr |-> rerr,
     wrote |-> wrote, k |-> k, before |-> before, after |-> after, closes |-> closes,
     done |-> done, err |-> err]

CloseReader(t, h) == [t EXCEPT ![h].rcloses = @ + 1]
CloseWriter(t, h) == [t EXCEPT ![h].wcloses = @ + 1]

\* a Read of handle h is in flight
Reading(h) == \E c \in cmds : c.pc = "reading" /\ c.reader = h

\* ------------------------------------------------------- single download
\* singleDownloadStep: the command, with the model as it is when Update returns
SingleStepCmd(reader, writer, cancelled, bytes, totalBytes) ==
    Cmd("singleDownloadStep", NoFile, reader, writer, cancelled, bytes, totalBytes, 0, 0)

\* Update, case tea.KeyMsg "d": download the selected file, item i of the list
KeyD(i) ==
    /\ ~showModal
    /\ state = stateExploring
    /\ Len(files) > 0
    /\ i \in 1..Len(files)
    /\ transfers < MaxTransfers
    /\ isSingleDownloading' = TRUE
    /\ singleDownloadBytesRead' = 0
    /\ singleDownloadTotalBytes' = files[i].ContentLength
    /\ singleDownloadCancelled' = FALSE
    /\ showModal' = TRUE
    /\ modalType' = 5
    /\ modalTitle' = "Downloading File"
    /\ cmds' = cmds \cup {Cmd("startSingleDownload", files[i], 0, 0, FALSE, 0, 0, 0, 0)}
    /\ transfers' = transfers + 1
    /\ UNCHANGED <<scannerVars, state, listVars, singleDownloadReader, singleDownloadWriter,
                   bulkVars, msgs, io, steps, escs>>

\* os.Create: whether it emptied a file that was there
Truncations(outcome) == IF outcome = "ok" THEN BOOLEAN ELSE {FALSE}

\* startSingleDownload: the command opens the response body and the file
StartSingleDownload(c, outcome) ==
    /\ c \in cmds
    /\ c.kind = "startSingleDownload"
    /\ outcome \in OpenOutcomes
    /\ cmds' = cmds \ {c}
    /\ \E existed \in Truncations(outcome) :
          io' = Append(io, [Handle("single", c.file, outcome) EXCEPT !.truncated = existed])
    /\ msgs' = msgs \cup
          {IF outcome = "ok"
           THEN Msg("SingleDownloadStartedMsg", Len(io) + 1, 0, 0, FALSE, "", 0, 0, c.file.Name)
           ELSE Msg("SingleDownloadStartedMsg", 0, 0, 0, FALSE, outcome, 0, 0, c.file.Name)}
    /\ UNCHANGED <<scannerVars, state, listVars, modalVars, singleVars, bulkVars, steps, escs,
                   transfers>>

\* Update, case SingleDownloadStartedMsg
UpdateSingleDownloadStarted(msg) ==
    /\ msg \in msgs
    /\ msg.type = "SingleDownloadStartedMsg"
    /\ msgs' = msgs \ {msg}
    /\ IF msg.Err # ""
       THEN /\ isSingleDownloading' = FALSE
            /\ showModal' = TRUE
            /\ modalType' = 2
            /\ modalTitle' = "Download Error"
            /\ UNCHANGED <<singleDownloadReader, singleDownloadWriter, cmds>>
       ELSE /\ singleDownloadReader' = msg.h
            /\ singleDownloadWriter' = msg.h
            /\ cmds' = cmds \cup {SingleStepCmd(msg.h, msg.h, singleDownloadCancelled,
                                                singleDownloadBytesRead,
                                                singleDownloadTotalBytes)}
            /\ UNCHANGED <<isSingleDownloading, modalVars>>
    /\ UNCHANGED <<scannerVars, state, listVars, singleDownloadBytesRead,
                   singleDownloadTotalBytes, singleDownloadCancelled, bulkVars, io, steps,
                   escs, transfers>>

\* SingleDownloadProgressMsg as singleDownloadStep builds it
SingleProgressMsg(c, bytes, done, err) ==
    [Msg("SingleDownloadProgressMsg", c.session, bytes, c.totalBytes, done, err, 0, 0, "")
        EXCEPT !.extra = c.extra]

\* singleDownloadStep, up to reader.Read: the step looks at the model it
\* captured; without both handles, or with the flag set, it returns at once
SingleStepBegin(c) ==
    /\ c \in cmds
    /\ c.kind = "singleDownloadStep"
    /\ c.pc = "pending"
    /\ IF c.reader = 0 \/ c.writer = 0
       THEN /\ cmds' = cmds \ {c}
            /\ msgs' = msgs \cup {SingleProgressMsg(c, c.bytes, TRUE, "not properly initialized")}
            /\ steps' = Append(steps, Step(c, singleDownloadCancelled, FALSE, 0, "", FALSE, 0,
                                           c.bytes, c.bytes, 0, TRUE,
                                           "not properly initialized"))
       ELSE IF c.cancelled
       THEN /\ cmds' = cmds \ {c}
            /\ msgs' = msgs \cup {SingleProgressMsg(c, c.bytes, TRUE, "")}
            /\ steps' = Append(steps, Step(c, singleDownloadCancelled, FALSE, 0, "", FALSE, 0,
                                           c.bytes, c.bytes, 0, TRUE, ""))
       ELSE /\ cmds' = (cmds \ {c}) \cup
                         {[c EXCEPT !.pc = "reading",
                                    !.flagAtBegin = singleDownloadCancelled,
                                    !.closedAtBegin = io[c.reader].rcloses > 0]}
            /\ UNCHANGED <<msgs, steps>>
    /\ UNCHANGED <<scannerVars, state, listVars, modalVars, singleVars, bulkVars, io, escs,
                   transfers>>

\* what the Read of command c can return: a body closed before the Read
\* fails; one closed during the Read fails or returns what it already had
ReadResults(c) ==
    IF c.closedAtBegin THEN {ClosedRead}
    ELSE IF io[c.reader].rcloses > 0 THEN ReadOutcomes(io[c.reader].left) \cup {ClosedRead}
    ELSE ReadOutcomes(io[c.reader].left)

\* what the step's Write stores of the n bytes read: nothing is written when n is 0
WriteResults(n) == IF n > 0 THEN WriteOutcomes(n) ELSE {0}

\* the commands whose Read is in flight
ReadingCmds == {c \in cmds : c.pc = "reading"}

\* the err after the write: a write error is kept only when the read had none
ErrAfterWrite(rerr, n, k) == IF n > 0 /\ k < n /\ rerr = "" THEN "write" ELSE rerr

\* mutant: the count restarts from the bytes of the last chunk
NewBytesReadRestart(currentBytes, n) == n

\* newBytesRead
NewBytesRead(currentBytes, n) == IF n > 0 THEN currentBytes + n ELSE currentBytes

\* done, finalErr
StepDone(err) == err # ""
FinalErr(err) == IF err = "EOF" THEN "" ELSE err

\* the body and the file after a Read of n bytes and a Write that stored k
AfterReadWrite(t, h, n, k) ==
    [t EXCEPT ![h].left = @ - n, ![h].written = @ + k, ![h].reads = @ + 1]

\* singleDownloadStep, from the return of reader.Read: write what was read
\* and report
SingleStepReturn(c, r, k) ==
    /\ c \in cmds
    /\ c.kind = "singleDownloadStep"
    /\ c.pc = "reading"
    /\ r \in ReadResults(c)
    /\ k \in WriteResults(r[1])
    /\ LET n == r[1]
           err == ErrAfterWrite(r[2], n, k)
           newBytesRead == NewBytesRead(c.bytes, n)
       IN  /\ io' = AfterReadWrite(io, c.reader, n, k)
           /\ msgs' = msgs \cup {SingleProgressMsg(c, newBytesRead, StepDone(err),
                                                   FinalErr(err))}
           /\ steps' = Append(steps, Step(c, c.flagAtBegin, TRUE, n, r[2], n > 0, k, c.bytes,
                                          newBytesRead, 0, StepDone(err), FinalErr(err)))
    /\ cmds' = cmds \ {c}
    /\ UNCHANGED <<scannerVars, state, listVars, modalVars, singleVars, bulkVars, escs,
                   transfers>>

\* mutant: the cleanup keeps the reference
ReleasedKept(h) == h

\* Update, case SingleDownloadProgressMsg: the reference after the cleanup, nil
Released(h) == 0

\* mutant: an error is reported as an error even after ESC
SingleOutcomeTitleErrFirst(cancelled, err) ==
    IF err # "" THEN "Download Error"
    ELSE IF cancelled THEN "Download Cancelled"
    ELSE "Download Complete"

\* Update, case SingleDownloadProgressMsg with Done: the title of the alert
SingleOutcomeTitle(cancelled, err) ==
    IF cancelled THEN "Download Cancelled"
    ELSE IF err # "" THEN "Download Error"
    ELSE "Download Complete"

\* Update, case SingleDownloadProgressMsg
UpdateSingleDownloadProgress(msg) ==
    /\ msg \in msgs
    /\ msg.type = "SingleDownloadProgressMsg"
    /\ msgs' = msgs \ {msg}
    /\ singleDownloadBytesRead' = msg.Bytes
    /\ IF msg.Done
       THEN /\ io' = LET t == IF singleDownloadReader # 0
                              THEN CloseReader(io, singleDownloadReader) ELSE io
                     IN  IF singleDownloadWriter # 0
                         THEN CloseWriter(t, singleDownloadWriter) ELSE t
            /\ singleDownloadReader' = Released(singleDownloadReader)
            /\ singleDownloadWriter' = Released(singleDownloadWriter)
            /\ isSingleDownloading' = FALSE
            /\ showModal' = TRUE
            /\ modalType' = 2
            /\ modalTitle' = SingleOutcomeTitle(singleDownloadCancelled, msg.Err)
            /\ singleDownloadCancelled' = FALSE
            /\ UNCHANGED cmds
       ELSE /\ cmds' = cmds \cup {SingleStepCmd(singleDownloadReader, singleDownloadWriter,
                                                singleDownloadCancelled, msg.Bytes,
                                                singleDownloadTotalBytes)}
            /\ UNCHANGED <<io, singleDownloadReader, singleDownloadWriter,
                           isSingleDownloading, singleDownloadCancelled, modalVars>>
    /\ UNCHANGED <<scannerVars, state, listVars, singleDownloadTotalBytes, bulkVars, steps,
                   escs, transfers>>

\* mutant: ESC sets the flag and leaves the body alone
KeyEscSingleFlagOnly ==
    /\ showModal
    /\ modalType = 5
    /\ escs < MaxEsc
    /\ escs' = escs + 1
    /\ singleDownloadCancelled' = TRUE
    /\ modalTitle' = "Cancelling Download..."
    /\ UNCHANGED <<scannerVars, state, listVars, showModal, modalType, isSingleDownloading,
                   singleDownloadBytesRead, singleDownloadTotalBytes, singleDownloadReader,
                   singleDownloadWriter, bulkVars, cmds, msgs, io, steps, transfers>>

\* Update, case tea.KeyMsg "esc" on the single download's progress modal
KeyEscSingle ==
    /\ showModal
    /\ modalType = 5
    /\ escs < MaxEsc
    /\ escs' = escs + 1
    /\ singleDownloadCancelled' = TRUE
    /\ modalTitle' = "Cancelling Download..."
    /\ io' = IF singleDownloadReader # 0
             THEN [CloseReader(io, singleDownloadReader) EXCEPT
                      ![singleDownloadReader].hit = @ \/ Reading(singleDownloadReader)]
             ELSE io
    /\ UNCHANGED <<scannerVars, state, listVars, showModal, modalType, isSingleDownloading,
                   singleDownloadBytesRead, singleDownloadTotalBytes, singleDownloadReader,
                   singleDownloadWriter, bulkVars, cmds, msgs, steps, transfers>>

\* Update, case tea.KeyMsg "enter" or "esc" on an alert
KeyAlertOk ==
    /\ showModal
    /\ modalType = 2
    /\ showModal' = FALSE
    /\ UNCHANGED <<scannerVars, state, listVars, modalType, modalTitle, singleVars, bulkVars,
                   runtimeVars>>

\* --------------------------------------------------------- bulk download
\* Update, case tea.KeyMsg "b": ask before downloading the whole container
KeyB ==
    /\ ~showModal
    /\ state = stateExploring
    /\ Len(files) > 0
    /\ selectedContainer # ""
    /\ transfers < MaxTransfers
    /\ showModal' = TRUE
    /\ modalType' = 3
    /\ modalTitle' = "Bulk Download"
    /\ UNCHANGED <<scannerVars, state, listVars, singleVars, bulkVars, runtimeVars>>

\* Update, case tea.KeyMsg "n" or "esc" on the bulk confirmation
KeyBulkDecline ==
    /\ showModal
    /\ modalType = 3
    /\ showModal' = FALSE
    /\ UNCHANGED <<scannerVars, state, listVars, modalType, modalTitle, singleVars, bulkVars,
                   runtimeVars>>

\* mutant: the command is for the last item of the queue
DownloadNextFileLast(queue, current, tot, cancelled) ==
    IF Len(queue) = 0 THEN {}
    ELSE {Cmd("downloadNextFile", queue[Len(queue)], 0, 0, cancelled, 0, 0, current + 1, tot)}

\* downloadNextFile: nil on an empty queue, else the command for its head;
\* the closure reads the model through the pointer, as Update leaves it
DownloadNextFile(queue, current, tot, cancelled) ==
    IF Len(queue) = 0 THEN {}
    ELSE {Cmd("downloadNextFile", Head(queue), 0, 0, cancelled, 0, 0, current + 1, tot)}

\* startBulkDownload: the entries that are not history entries
BulkQueue(items) == SelectSeq(items, LAMBDA f : ~f.IsVersion)

\* Update, case tea.KeyMsg "y" on the bulk confirmation: startBulkDownload.
\* In `return m, m.startBulkDownload()` the call, which changes m through the
\* pointer receiver, runs before m is copied into the returned tea.Model
KeyBulkConfirm ==
    /\ showModal
    /\ modalType = 3
    /\ modalType' = 4
    /\ modalTitle' = "Bulk Download in Progress"
    /\ bulkCancelRequested' = FALSE
    /\ bulkCurrentBytesRead' = 0
    /\ bulkCurrentTotalBytes' = 0
    /\ bulkDownloadSuccesses' = 0
    /\ bulkDownloadFailures' = <<>>
    /\ bulkDownloadTotal' = Len(BulkQueue(files))
    /\ transfers' = transfers + 1
    /\ IF Len(BulkQueue(files)) = 0
       THEN /\ isBulkDownloading' = FALSE
            /\ bulkDownloadQueue' = <<>>
            /\ bulkDownloadCurrent' = 0
            /\ cmds' = cmds \cup {Cmd("downloadNextFile", NoFile, 0, 0, FALSE, 0, 0, 0, 0)}
       ELSE /\ isBulkDownloading' = TRUE
            /\ bulkDownloadQueue' = Tail(BulkQueue(files))
            /\ bulkDownloadCurrent' = 1
            /\ cmds' = cmds \cup DownloadNextFile(BulkQueue(files), 0,
                                                  Len(BulkQueue(files)), FALSE)
    /\ UNCHANGED <<scannerVars, state, listVars, showModal, singleVars, msgs, io, steps, escs>>

\* BulkDownloadProgressMsg as the command of downloadNextFile builds it
BulkProgressMsg(c, bytes, totalB, done, err) ==
    Msg("BulkDownloadProgressMsg", c.session, bytes, totalB, done, err, c.current, c.total,
        c.file.Name)

\* the command startBulkDownload returns, up to rc.Read in
\* bulkDownloadStepWithHandles: with no file to download (total 0) it only
\* reports; else it is the command of downloadNextFile, which opens the body
\* and the file unless the cleaned name holds ".."; a rejected name is
\* recorded in io with the outcome "invalid": nothing was opened or created
BulkOpen(c, outcome) ==
    /\ c \in cmds
    /\ c.kind = "downloadNextFile"
    /\ c.pc = "pending"
    /\ outcome \in OpenOutcomes
    /\ IF c.total = 0
       THEN /\ cmds' = cmds \ {c}
            /\ msgs' = msgs \cup {Msg("BulkDownloadProgressMsg", 0, 0, 0, TRUE, "", 0, 0, "")}
            /\ UNCHANGED <<io, steps>>
       ELSE IF InvalidFilename(c.file.Name)
       THEN /\ cmds' = cmds \ {c}
            /\ io' = Append(io, Handle("bulk", c.file, "invalid"))
            /\ msgs' = msgs \cup {BulkProgressMsg(c, 0, 0, TRUE, "invalid filename")}
            /\ UNCHANGED steps
       ELSE IF outcome # "ok"
       THEN /\ cmds' = cmds \ {c}
            /\ io' = Append(io, Handle("bulk", c.file, outcome))
            /\ msgs' = msgs \cup {BulkProgressMsg(c, 0, 0, TRUE, outcome)}
            /\ UNCHANGED steps
       ELSE LET h == Len(io) + 1
                opened == Append(io, Handle("bulk", c.file, outcome))
                d == [c EXCEPT !.session = h, !.reader = h, !.writer = h, !.bytes = 0,
                               !.totalBytes = c.file.ContentLength]
            IN  IF c.cancelled
                THEN /\ cmds' = cmds \ {c}
                     /\ io' = CloseWriter(CloseReader(opened, h), h)
                     /\ msgs' = msgs \cup {BulkProgressMsg(d, d.bytes, d.totalBytes, TRUE, "")}
                     /\ steps' = Append(steps, Step(d, bulkCancelRequested, FALSE, 0, "",
                                                    FALSE, 0, 0, 0, 1, TRUE, ""))
                ELSE /\ cmds' = (cmds \ {c}) \cup
                                  {[d EXCEPT !.pc = "reading",
                                             !.flagAtBegin = bulkCancelRequested]}
                     /\ io' = opened
                     /\ UNCHANGED <<msgs, steps>>
    /\ UNCHANGED <<scannerVars, state, listVars, modalVars, singleVars, bulkVars, escs,
                   transfers>>

\* bulkDownloadStepWithHandles, from the return of rc.Read: write what was
\* read, close both handles when done, and report
BulkStepReturn(c, r, k) ==
    /\ c \in cmds
    /\ c.kind = "downloadNextFile"
    /\ c.pc = "reading"
    /\ r \in ReadResults(c)
    /\ k \in WriteResults(r[1])
    /\ LET n == r[1]
           err == ErrAfterWrite(r[2], n, k)
           bytes == NewBytesRead(c.bytes, n)
           t == AfterReadWrite(io, c.reader, n, k)
       IN  /\ io' = IF StepDone(err) THEN CloseWriter(CloseReader(t, c.reader), c.writer)
                    ELSE t
           /\ msgs' = msgs \cup {BulkProgressMsg(c, bytes, c.totalBytes, StepDone(err),
                                                 FinalErr(err))}
           /\ steps' = Append(steps, Step(c, c.flagAtBegin, TRUE, n, r[2], n > 0, k, c.bytes,
                                          bytes, IF StepDone(err) THEN 1 ELSE 0,
                                          StepDone(err), FinalErr(err)))
    /\ cmds' = cmds \ {c}
    /\ UNCHANGED <<scannerVars, state, listVars, modalVars, singleVars, bulkVars, escs,
                   transfers>>

\* bulkDownloadStep: no command
BulkDownloadStep == {}

\* Update, case BulkDownloadProgressMsg: the modal title of the summary
SummaryTitle(cancelled, failures) ==
    IF cancelled THEN "Bulk Download Cancelled"
    ELSE IF Len(failures) > 0 THEN "Bulk Download Finished with Errors"
    ELSE "Bulk Download Complete!"

\* Update, case BulkDownloadProgressMsg
UpdateBulkDownloadProgress(msg) ==
    /\ msg \in msgs
    /\ msg.type = "BulkDownloadProgressMsg"
    /\ msgs' = msgs \ {msg}
    /\ bulkCurrentBytesRead' = msg.Bytes
    /\ bulkCurrentTotalBytes' = msg.TotalB
    /\ bulkDownloadFailures' = IF msg.Err # "" /\ msg.Done
                               THEN Append(bulkDownloadFailures, msg.File)
                               ELSE bulkDownloadFailures
    /\ bulkDownloadSuccesses' = IF msg.Done /\ msg.Err = ""
                                THEN bulkDownloadSuccesses + 1 ELSE bulkDownloadSuccesses
    /\ IF msg.Done /\ (bulkCancelRequested \/ msg.Current >= msg.Total)
       THEN /\ isBulkDownloading' = FALSE
            /\ modalType' = 2
            /\ modalTitle' = SummaryTitle(bulkCancelRequested, bulkDownloadFailures')
            /\ UNCHANGED <<cmds, bulkDownloadQueue, bulkDownloadCurrent>>
       ELSE IF msg.Done
       THEN /\ cmds' = cmds \cup DownloadNextFile(bulkDownloadQueue, bulkDownloadCurrent,
                                                  bulkDownloadTotal, bulkCancelRequested)
            /\ bulkDownloadQueue' = IF Len(bulkDownloadQueue) = 0 THEN bulkDownloadQueue
                                    ELSE Tail(bulkDownloadQueue)
            /\ bulkDownloadCurrent' = IF Len(bulkDownloadQueue) = 0 THEN bulkDownloadCurrent
                                      ELSE bulkDownloadCurrent + 1
            /\ UNCHANGED <<isBulkDownloading, modalType, modalTitle>>
       ELSE /\ cmds' = cmds \cup BulkDownloadStep
            /\ UNCHANGED <<isBulkDownloading, modalType, modalTitle, bulkDownloadQueue,
                           bulkDownloadCurrent>>
    /\ UNCHANGED <<scannerVars, state, listVars, showModal, singleVars, bulkDownloadTotal,
                   bulkCancelRequested, io, steps, escs, transfers>>

\* Update, case tea.KeyMsg "esc" on the bulk download's progress modal
KeyEscBulk ==
    /\ showModal
    /\ modalType = 4
    /\ escs < MaxEsc
    /\ escs' = escs + 1
    /\ bulkCancelRequested' = TRUE
    /\ modalTitle' = "Cancelling Bulk Download..."
    /\ UNCHANGED <<scannerVars, state, listVars, showModal, modalType, singleVars,
                   isBulkDownloading, bulkDownloadQueue, bulkDownloadTotal,
                   bulkDownloadCurrent, bulkCurrentBytesRead, bulkCurrentTotalBytes,
                   bulkDownloadSuccesses, bulkDownloadFailures, cmds, msgs, io, steps,
                   transfers>>

\* ------------------------------------------------ the download scenarios
\* the scan of one account with one public container is over and every
\* Result has been handled
ScanOverEvents ==
    <<Result(ResultProgressUpdate, "", "", FALSE, 1, 1),
      Result(ResultAccountFound, "A", "", FALSE, 0, 0),
      Result(ResultProgressUpdate, "", "", FALSE, 2, 1),
      Result(ResultContainerFound, "A", "web", TRUE, 0, 0),
      Result(ResultScanFinished, "", "", FALSE, 0, 0)>>

ScanOver ==
    /\ AccountNames = Accounts(1)
    /\ ContainerNames = Containers(1)
    /\ Concurrency = 1
    /\ permitted = AnyOutcome(1, 1)
    /\ Results = <<>>
    /\ closed = TRUE
    /\ total = 1
    /\ progress = 2
    /\ mu = 0
    /\ sem = 0
    /\ wg = 0
    /\ dpc = "exited"
    /\ di = 2
    /\ wpc = <<"returned">>
    /\ wj = <<1>>
    /\ wcurrent = <<2>>
    /\ wexists = <<TRUE>>
    /\ wpublic = <<TRUE>>
    /\ armed = FALSE
    /\ inbox = <<>>
    /\ isScanning = FALSE
    /\ scanProgress = 2
    /\ scanTotal = 1
    /\ foundItems = <<ScanOverEvents[2], ScanOverEvents[4]>>
    /\ sent = ScanOverEvents
    /\ received = ScanOverEvents
    /\ probeLog = <<<<[kind |-> "account", name |-> "A", failed |-> FALSE,
                       exists |-> TRUE, public |-> FALSE],
                      [kind |-> "container", name |-> "web", failed |-> FALSE,
                       exists |-> TRUE, public |-> TRUE]>>>>

\* the listing of the container: n blobs of any of the sizes and, when
\* expanded, one history entry under the first blob
Listing(n, sizes, expanded) ==
    LET blobs == [i \in 1..n |-> FileItem(FileName(i), FALSE, sizes[i])]
    IN  IF expanded
        THEN <<blobs[1], FileItem(FileName(1), TRUE, SmallSize)>> \o Tail(blobs)
        ELSE blobs

\* the user has selected the container, its blobs are listed and the focus
\* is on the file pane
InitTransfer ==
    /\ ScanOver
    /\ state = stateExploring
    /\ \E n \in 1..MaxFiles, expanded \in BOOLEAN :
          \E sizes \in [1..n -> SourceSizes] : files = Listing(n, sizes, expanded)
    /\ Selected("A", "web")
    /\ NoDownload

NextTransfer ==
    \/ \E i \in 1..Len(files) : KeyD(i)
    \/ \E c \in cmds, outcome \in OpenOutcomes : StartSingleDownload(c, outcome)
    \/ \E msg \in msgs : UpdateSingleDownloadStarted(msg)
    \/ \E c \in cmds : SingleStepBegin(c)
    \/ \E c \in ReadingCmds : \E r \in ReadResults(c) : \E k \in WriteResults(r[1]) :
          SingleStepReturn(c, r, k)
    \/ \E msg \in msgs : UpdateSingleDownloadProgress(msg)
    \/ KeyEscSingle
    \/ KeyAlertOk
    \/ KeyB
    \/ KeyBulkDecline
    \/ KeyBulkConfirm
    \/ \E c \in cmds, outcome \in OpenOutcomes : BulkOpen(c, outcome)
    \/ \E c \in ReadingCmds : \E r \in ReadResults(c) : \E k \in WriteResults(r[1]) :
          BulkStepReturn(c, r, k)
    \/ \E msg \in msgs : UpdateBulkDownloadProgress(msg)
    \/ KeyEscBulk

SpecTransfer == InitTransfer /\ [][NextTransfer]_vars

\* what the runtime does by itself: it runs the commands it was given and
\* passes their messages to Update
RunTransfer ==
    \/ \E c \in cmds, outcome \in OpenOutcomes : StartSingleDownload(c, outcome)
    \/ \E msg \in msgs : UpdateSingleDownloadStarted(msg)
    \/ \E c \in cmds : SingleStepBegin(c)
    \/ \E c \in ReadingCmds : \E r \in ReadResults(c) : \E k \in WriteResults(r[1]) :
          SingleStepReturn(c, r, k)
    \/ \E msg \in msgs : UpdateSingleDownloadProgress(msg)
    \/ \E c \in cmds, outcome \in OpenOutcomes : BulkOpen(c, outcome)
    \/ \E c \in ReadingCmds : \E r \in ReadResults(c) : \E k \in WriteResults(r[1]) :
          BulkStepReturn(c, r, k)
    \/ \E msg \in msgs : UpdateBulkDownloadProgress(msg)

\* the runtime runs every command it is given, every Read returns and
\* every message reaches Update; the user presses keys or not
FairSpecTransfer == InitTransfer /\ [][NextTransfer]_vars /\ WF_vars(RunTransfer)

\* ------------------------------------------- a step after the last step
\* a command or message of a call of singleDownloadStep that Update did not make
ExtraPending == (\E c \in cmds : c.extra) \/ (\E msg \in msgs : msg.extra)

\* singleDownloadStep called once more on the model of a single download
\* that is over: h is the opening the last download worked on
ExtraStep(h) ==
    /\ h \in 1..Len(io)
    /\ io[h].kind = "single"
    /\ io[h].sink
    /\ \E i \in 1..Len(steps) : steps[i].h = h /\ steps[i].done
    /\ ~isSingleDownloading
    /\ cmds = {}
    /\ msgs = {}
    /\ Cardinality({i \in 1..Len(steps) : steps[i].extra}) < MaxExtraSteps
    /\ cmds' = {[SingleStepCmd(singleDownloadReader, singleDownloadWriter,
                               singleDownloadCancelled, singleDownloadBytesRead,
                               singleDownloadTotalBytes)
                    EXCEPT !.extra = TRUE, !.session = h]}
    /\ UNCHANGED <<scannerVars, state, listVars, modalVars, singleVars, bulkVars, msgs, io,
                   steps, escs, transfers>>

\* the runtime runs the extra step and Update handles its message
RunExtraStep ==
    \/ \E c \in cmds : SingleStepBegin(c)
    \/ \E c \in ReadingCmds : \E r \in ReadResults(c) : \E k \in WriteResults(r[1]) :
          SingleStepReturn(c, r, k)
    \/ \E msg \in msgs : UpdateSingleDownloadProgress(msg)

\* the downloads, and one more step after a single download; the extra
\* step and its message are run before anything else happens
NextExtraStep ==
    \/ ~ExtraPending /\ NextTransfer
    \/ \E h \in 1..Len(io) : ExtraStep(h)
    \/ ExtraPending /\ RunExtraStep

SpecExtraStep == InitTransfer /\ [][NextExtraStep]_vars

\* ------------------------------------------------- the long bulk download
\* the container lists BatchFiles blobs of SmallSize bytes
InitBatch ==
    /\ ScanOver
    /\ state = stateExploring
    /\ files = Listing(BatchFiles, [i \in 1..BatchFiles |-> SmallSize], FALSE)
    /\ Selected("A", "web")
    /\ NoDownload

\* what goes wrong in the long bulk download: the remote open of an item
\* fails, or a Read fails; every Write stores what it is given
BatchOpenOutcomes == {"open", "ok"}

NextBatch ==
    \/ KeyB
    \/ KeyBulkDecline
    \/ KeyBulkConfirm
    \/ \E c \in cmds, outcome \in BatchOpenOutcomes : BulkOpen(c, outcome)
    \/ \E c \in ReadingCmds : \E r \in ReadResults(c) : BulkStepReturn(c, r, r[1])
    \/ \E msg \in msgs : UpdateBulkDownloadProgress(msg)
    \/ KeyEscBulk
    \/ KeyAlertOk

SpecBatch == InitBatch /\ [][NextBatch]_vars

\* ------------------------------------------ a bulk step that sees the flag
\* bulkDownloadStepWithHandles called on the model Update holds, in which
\* the cancellation flag is set, for the item whose step left its handles
\* open (h is its opening), and its message handed to Update. No command
\* Update returns does this: the commands of downloadNextFile hold a model
\* in which the flag is not set, and bulkDownloadStep returns none
CancelledStep(h) ==
    /\ h \in 1..Len(io)
    /\ io[h].kind = "bulk"
    /\ io[h].sink
    /\ io[h].rcloses = 0
    /\ io[h].wcloses = 0
    /\ isBulkDownloading
    /\ bulkCancelRequested
    /\ cmds = {}
    /\ msgs = {}
    /\ Cardinality({i \in 1..Len(steps) : steps[i].extra}) < MaxExtraSteps
    /\ LET c == [Cmd("downloadNextFile", FileItem(io[h].name, FALSE, bulkCurrentTotalBytes),
                     h, h, bulkCancelRequested, bulkCurrentBytesRead,
                     bulkCurrentTotalBytes, bulkDownloadCurrent, bulkDownloadTotal)
                    EXCEPT !.extra = TRUE]
       IN  /\ io' = CloseWriter(CloseReader(io, h), h)
           /\ msgs' = {[BulkProgressMsg(c, c.bytes, c.totalBytes, TRUE, "")
                           EXCEPT !.extra = TRUE]}
           /\ steps' = Append(steps, Step(c, bulkCancelRequested, FALSE, 0, "", FALSE, 0,
                                          c.bytes, c.bytes, 1, TRUE, ""))
    /\ UNCHANGED <<scannerVars, state, listVars, modalVars, singleVars, bulkVars, cmds, escs,
                   transfers>>

NextCancelledStep ==
    \/ NextTransfer
    \/ \E h \in 1..Len(io) : CancelledStep(h)

SpecCancelledStep == InitTransfer /\ [][NextCancelledStep]_vars

\* ---------------------------------------------------- listing a container
\* what ListBlobs can return for the container: nothing (the container is
\* empty, or the request failed and fetchFiles made an empty list of it),
\* its one blob, or, with versioning, an older version of the blob and then
\* the current one
Listings ==
    {<<>>,
     <<Blob(FileName(1), "", FALSE, SmallSize)>>,
     <<Blob(FileName(1), "v1", FALSE, SmallSize), Blob(FileName(1), "v2", TRUE, SmallSize)>>}

\* Update, case FileListMsg: items[i] = FileItem{Blob: f}
FileItems(blobs) ==
    [i \in 1..Len(blobs) |->
        [FileItem(blobs[i].Name, FALSE, blobs[i].ContentLength)
            EXCEPT !.VersionId = blobs[i].VersionId,
                   !.IsCurrentVersion = blobs[i].IsCurrentVersion]]

\* Update, case tea.KeyMsg "tab": the focus goes to the other pane
KeyTab ==
    /\ ~showModal
    /\ state' = IF state = stateScanning THEN stateExploring ELSE stateScanning
    /\ UNCHANGED <<scannerVars, downloadVars>>

\* Update, the end: a key moved the selection of the left pane onto a
\* container; its files are fetched and the file list is emptied meanwhile
SelectContainer(i) ==
    /\ ~showModal
    /\ state = stateScanning
    /\ i \in 1..Len(foundItems)
    /\ foundItems[i].Type = ResultContainerFound
    /\ selectedAccount' = foundItems[i].AccountName
    /\ selectedContainer' = foundItems[i].ContainerName
    /\ isLoadingFiles' = TRUE
    /\ files' = <<>>
    /\ cmds' = cmds \cup {[Cmd("fetchFiles", NoFile, 0, 0, FALSE, 0, 0, 0, 0)
                              EXCEPT !.account = foundItems[i].AccountName,
                                     !.container = foundItems[i].ContainerName]}
    /\ UNCHANGED <<scannerVars, state, modalVars, singleVars, bulkVars, msgs, io, steps,
                   escs, transfers>>

\* fetchFiles: the command lists the container
FetchFiles(c, blobs) ==
    /\ c \in cmds
    /\ c.kind = "fetchFiles"
    /\ blobs \in Listings
    /\ cmds' = cmds \ {c}
    /\ msgs' = msgs \cup {[Msg("FileListMsg", 0, 0, 0, FALSE, "", 0, 0, "")
                              EXCEPT !.Blobs = blobs, !.account = c.account,
                                     !.container = c.container]}
    /\ UNCHANGED <<scannerVars, state, listVars, modalVars, singleVars, bulkVars, io, steps,
                   escs, transfers>>

\* Update, case FileListMsg
UpdateFileList(msg) ==
    /\ msg \in msgs
    /\ msg.type = "FileListMsg"
    /\ msgs' = msgs \ {msg}
    /\ isLoadingFiles' = FALSE
    /\ files' = FileItems(msg.Blobs)
    /\ UNCHANGED <<scannerVars, state, selectedAccount, selectedContainer, modalVars, singleVars, bulkVars, cmds, io, steps,
                   escs, transfers>>

\* the scan is over, the focus is on the left pane and nothing is listed
InitListing ==
    /\ ScanOver
    /\ state = stateScanning
    /\ files = <<>>
    /\ Selected("", "")
    /\ NoDownload

NextListing ==
    \/ KeyTab
    \/ \E i \in 1..Len(foundItems) : SelectContainer(i)
    \/ \E c \in cmds, blobs \in Listings : FetchFiles(c, blobs)
    \/ \E msg \in msgs : UpdateFileList(msg)
    \/ NextTransfer

SpecListing == InitListing /\ [][NextListing]_vars

\* ------------------------------------------------ choosing a container
\* the scan of two accounts by one worker is over and Update has handled its
\* events: each account has the public container "web"
ScanOverTwoEvents ==
    <<Result(ResultProgressUpdate, "", "", FALSE, 1, 2),
      Result(ResultAccountFound, "A", "", FALSE, 0, 0),
      Result(ResultProgressUpdate, "", "", FALSE, 2, 2),
      Result(ResultContainerFound, "A", "web", TRUE, 0, 0),
      Result(ResultProgressUpdate, "", "", FALSE, 3, 2),
      Result(ResultAccountFound, "B", "", FALSE, 0, 0),
      Result(ResultProgressUpdate, "", "", FALSE, 4, 2),
      Result(ResultContainerFound, "B", "web", TRUE, 0, 0),
      Result(ResultScanFinished, "", "", FALSE, 0, 0)>>

ScanOverTwo ==
    /\ AccountNames = Accounts(2)
    /\ ContainerNames = Containers(1)
    /\ Concurrency = 1
    /\ permitted = AnyOutcome(2, 1)
    /\ Results = <<>>
    /\ closed = TRUE
    /\ total = 2
    /\ progress = 4
    /\ mu = 0
    /\ sem = 0
    /\ wg = 0
    /\ dpc = "exited"
    /\ di = 3
    /\ wpc = <<"returned", "returned">>
    /\ wj = <<1, 1>>
    /\ wcurrent = <<2, 4>>
    /\ wexists = <<TRUE, TRUE>>
    /\ wpublic = <<TRUE, TRUE>>
    /\ armed = FALSE
    /\ inbox = <<>>
    /\ isScanning = FALSE
    /\ scanProgress = 4
    /\ scanTotal = 2
    /\ foundItems = <<ScanOverTwoEvents[2], ScanOverTwoEvents[4],
                      ScanOverTwoEvents[6], ScanOverTwoEvents[8]>>
    /\ sent = ScanOverTwoEvents
    /\ received = ScanOverTwoEvents
    /\ probeLog = [w \in 1..2 |->
                      <<[kind |-> "account", name |-> AccountName(w), failed |-> FALSE,
                         exists |-> TRUE, public |-> FALSE],
                        [kind |-> "container", name |-> "web", failed |-> FALSE,
                         exists |-> TRUE, public |-> TRUE]>>]

\* nothing is selected yet; the user moves between the two containers and
\* the panes while the listings arrive
InitSelection ==
    /\ ScanOverTwo
    /\ state = stateScanning
    /\ files = <<>>
    /\ Selected("", "")
    /\ NoDownload

NextSelection ==
    \/ KeyTab
    \/ \E i \in 1..Len(foundItems) : SelectContainer(i)
    \/ \E c \in cmds, blobs \in Listings : FetchFiles(c, blobs)
    \/ \E msg \in msgs : UpdateFileList(msg)

SpecSelection == InitSelection /\ [][NextSelection]_vars

\* ------------------------------------------------- keys during the scan
\* the user changes the focus with Tab while one account is being scanned
InitFocus ==
    \E nc \in 1..MaxContainers : InitWith(1, nc, 1, AnyOutcome(1, nc))

NextFocus ==
    \/ Next
    \/ KeyTab

SpecFocus == InitFocus /\ [][NextFocus]_vars

\* ------------------------------------------- names with a parent directory
\* the container lists a blob whose name leaves the download directory and
\* one whose name only passes through a parent directory
InitTraversal ==
    /\ ScanOver
    /\ state = stateExploring
    /\ files = <<FileItem(EscapingName, FALSE, SmallSize), FileItem(NestedName, FALSE, SmallSize)>>
    /\ Selected("A", "web")
    /\ NoDownload

SpecTraversal == InitTraversal /\ [][NextTransfer]_vars

\* ------------------------------------------------------- version history
\* what GetBlobVersions can return for the blob: an error (a status other
\* than 200, no response), the blob alone in a container without versioning,
\* or an older version and the current one
VersionAnswers(name) ==
    {[err |-> "versions", versions |-> <<>>],
     [err |-> "", versions |-> <<Blob(name, "", FALSE, SmallSize)>>],
     [err |-> "", versions |-> <<Blob(name, "v1", FALSE, SmallSize),
                                 Blob(name, "v2", TRUE, SmallSize)>>]}

\* the version requests in flight and their answers not yet handled
VersionFetches ==
    {c \in cmds : c.kind = "fetchVersions"} \cup {msg \in msgs : msg.type = "VersionsMsg"}

\* Update, case tea.KeyMsg "v": fetch the versions of the selected file
KeyV(i) ==
    /\ ~showModal
    /\ state = stateExploring
    /\ Len(files) > 0
    /\ i \in 1..Len(files)
    /\ Cardinality(VersionFetches) < MaxFetches
    /\ cmds' = cmds \cup {[Cmd("fetchVersions", files[i], 0, 0, FALSE, 0, 0, 0, 0)
                              EXCEPT !.account = selectedAccount,
                                     !.container = selectedContainer]}
    /\ UNCHANGED <<scannerVars, state, listVars, modalVars, singleVars, bulkVars, msgs, io,
                   steps, escs, transfers>>

\* fetchVersions: the command asks for the versions of the blob
FetchVersions(c, answer) ==
    /\ c \in cmds
    /\ c.kind = "fetchVersions"
    /\ answer \in VersionAnswers(c.file.Name)
    /\ cmds' = cmds \ {c}
    /\ msgs' = msgs \cup {[Msg("VersionsMsg", 0, 0, 0, FALSE, answer.err, 0, 0, c.file.Name)
                              EXCEPT !.Blobs = answer.versions, !.account = c.account,
                                     !.container = c.container]}
    /\ UNCHANGED <<scannerVars, state, listVars, modalVars, singleVars, bulkVars, io, steps,
                   escs, transfers>>

\* Update, case VersionsMsg: the entries to insert, the versions but the base blob
VersionItems(versions) ==
    LET Versioned(v) == v.VersionId # ""
        kept == SelectSeq(versions, Versioned)
    IN  [i \in 1..Len(kept) |->
            [FileItem(kept[i].Name, TRUE, kept[i].ContentLength)
                EXCEPT !.VersionId = kept[i].VersionId,
                       !.IsCurrentVersion = kept[i].IsCurrentVersion]]

\* Update, case VersionsMsg: the list with the versions inserted under the
\* first entry of that name, or removed when a version entry follows it
ToggleVersions(items, name, versions) ==
    LET parents == {i \in 1..Len(items) : items[i].Name = name /\ ~items[i].IsVersion}
    IN  IF parents = {} THEN items
        ELSE LET parentIdx == CHOOSE i \in parents : \A k \in parents : i <= k
                 IsHistory(k) == items[k].IsVersion /\ items[k].Name = name
                 isExpanded == parentIdx + 1 <= Len(items) /\ IsHistory(parentIdx + 1)
                 others == {k \in (parentIdx + 1)..Len(items) : ~IsHistory(k)}
                 restIdx == IF others = {} THEN Len(items) + 1
                            ELSE CHOOSE k \in others : \A l \in others : k <= l
             IN  IF isExpanded
                 THEN SubSeq(items, 1, parentIdx) \o SubSeq(items, restIdx, Len(items))
                 ELSE SubSeq(items, 1, parentIdx) \o VersionItems(versions)
                      \o SubSeq(items, parentIdx + 1, Len(items))

\* Update, case VersionsMsg
UpdateVersions(msg) ==
    /\ msg \in msgs
    /\ msg.type = "VersionsMsg"
    /\ msgs' = msgs \ {msg}
    /\ IF msg.Err # ""
       THEN /\ showModal' = TRUE
            /\ modalType' = 2
            /\ modalTitle' = "Error"
            /\ UNCHANGED listVars
       ELSE /\ files' = ToggleVersions(files, msg.File, msg.Blobs)
            /\ UNCHANGED <<selectedAccount, selectedContainer, isLoadingFiles, modalVars>>
    /\ UNCHANGED <<scannerVars, state, singleVars, bulkVars, cmds, io, steps, escs,
                   transfers>>

\* ---------------------------------------------------------------- the keys
Keys == {"q", "ctrl+c", "tab", "d", "b", "v", "t", "up", "down", "enter", "esc",
         "y", "Y", "n", "N"}

\* Update, case tea.KeyMsg "q" or "ctrl+c": the command tea.Quit
KeyQuit ==
    /\ cmds' = cmds \cup {Cmd("tea.Quit", NoFile, 0, 0, FALSE, 0, 0, 0, 0)}
    /\ UNCHANGED <<scannerVars, state, listVars, modalVars, singleVars, bulkVars, msgs, io,
                   steps, escs, transfers>>

\* tea.Quit was returned: the program ends
Quitting == \E c \in cmds : c.kind = "tea.Quit"

\* mutant: a key the modal does not handle goes on to the keys of the panes
ModalKeyFallsThrough(key) ==
    CASE modalType = 2 /\ key \in {"enter", "esc"} -> KeyAlertOk
      [] modalType = 3 /\ key \in {"y", "Y"} -> KeyBulkConfirm
      [] modalType = 3 /\ key \in {"n", "N", "esc"} -> KeyBulkDecline
      [] modalType = 4 /\ key = "esc" -> KeyEscBulk
      [] modalType = 5 /\ key = "esc" -> KeyEscSingle
      [] OTHER -> key \in {"q", "ctrl+c"} /\ KeyQuit

\* Update, case tea.KeyMsg with m.showModal: the keys of the modal shown,
\* then return m, nil
ModalKey(key) ==
    CASE modalType = 2 /\ key \in {"enter", "esc"} -> KeyAlertOk
      [] modalType = 3 /\ key \in {"y", "Y"} -> KeyBulkConfirm
      [] modalType = 3 /\ key \in {"n", "N", "esc"} -> KeyBulkDecline
      [] modalType = 4 /\ key = "esc" -> KeyEscBulk
      [] modalType = 5 /\ key = "esc" -> KeyEscSingle
      [] OTHER -> UNCHANGED vars

\* Update, case tea.KeyMsg without a modal; the theme of "t" is not in the
\* model, and the arrow keys move the selection of the focused list
PaneKey(key) ==
    CASE key \in {"q", "ctrl+c"} -> KeyQuit
      [] key = "tab" -> KeyTab
      [] key = "d" -> \E i \in 1..Len(files) : KeyD(i)
      [] key = "b" -> KeyB
      [] key = "v" -> \E i \in 1..Len(files) : KeyV(i)
      [] key \in {"up", "down"} -> \E i \in 1..Len(foundItems) : SelectContainer(i)
      [] OTHER -> UNCHANGED vars

\* Update, case tea.KeyMsg
UpdateKey(key) ==
    IF showModal THEN ModalKey(key) ELSE PaneKey(key)

\* the container's one blob is listed and the focus is on the file pane
InitKeys ==
    /\ ScanOver
    /\ state = stateExploring
    /\ files = Listing(1, <<SmallSize>>, FALSE)
    /\ Selected("A", "web")
    /\ NoDownload

\* the user presses any keys while the runtime runs the commands and passes
\* on their messages; the container keeps its one blob
RunKeys ==
    \/ \E c \in cmds : FetchFiles(c, <<Blob(FileName(1), "", FALSE, SmallSize)>>)
    \/ \E msg \in msgs : UpdateFileList(msg)
    \/ \E c \in cmds : \E answer \in VersionAnswers(c.file.Name) : FetchVersions(c, answer)
    \/ \E msg \in msgs : UpdateVersions(msg)
    \/ RunTransfer

\* after tea.Quit no key is read, no command is run and no message is handled
NextKeys ==
    \/ ~Quitting /\ \E key \in Keys : UpdateKey(key)
    \/ ~Quitting /\ RunKeys

SpecKeys == InitKeys /\ [][NextKeys]_vars

\* ======================================================= download claims
\* the steps of the transfer that works on handle h, in order
StepsOf(h) == SelectSeq(steps, LAMBDA e : e.h = h)

\* the openings of single downloads that made both handles
SingleSessions == {h \in 1..Len(io) : io[h].kind = "single" /\ io[h].sink}
BulkSessions == {h \in 1..Len(io) : io[h].kind = "bulk" /\ io[h].sink}

\* a step of the transfer has reported Done=true
Reported(h) == \E i \in 1..Len(steps) : steps[i].h = h /\ steps[i].done

\* the sum of the byte increments the steps of seq reported
RECURSIVE SumIncrements(_)
SumIncrements(seq) ==
    IF seq = <<>> THEN 0
    ELSE (Head(seq).after - Head(seq).before) + SumIncrements(Tail(seq))

\* the write of step e failed or was short
WriteFailed(e) == e.wrote /\ e.k < e.n

\* C11: once a step of a single download has reported Done=true, the byte
\* increments its steps reported add up to the bytes written to the file
C11_IncrementsEqualWritten ==
    \A h \in SingleSessions :
        Reported(h) => SumIncrements(StepsOf(h)) = io[h].written

\* C12: a step of a single download that is not the first of its session
\* and begins when the cancellation flag is set does no read and no write
\* and returns Done=true with Err=nil, and once its message is handled the
\* body and the file are closed
C12_CancelBetweenSteps ==
    \A i \in 1..Len(steps) :
        LET e == steps[i]
        IN  (/\ e.kind = "singleDownloadStep"
             /\ e.h \in SingleSessions
             /\ e.flag
             /\ \E j \in 1..(i - 1) : steps[j].h = e.h)
            => /\ ~e.read /\ ~e.wrote /\ e.done /\ e.err = ""
               /\ (singleDownloadReader # e.h /\ (\A msg \in msgs : msg.h # e.h))
                    => (io[e.h].rcloses >= 1 /\ io[e.h].wcloses >= 1)

\* the terminal message of the single download on h has been handled
SingleOver(h) ==
    /\ Reported(h)
    /\ \A msg \in msgs : msg.h # h
    /\ singleDownloadReader # h

\* C13: Close is called at most once on the body and on the file of a
\* single download, and exactly once on each by the time its terminal
\* message has been handled
C13_ClosedExactlyOnce ==
    \A h \in SingleSessions :
        /\ io[h].rcloses <= 1
        /\ io[h].wcloses <= 1
        /\ SingleOver(h) => (io[h].rcloses = 1 /\ io[h].wcloses = 1)

\* C14: while the body or the file of a transfer is not closed, a command
\* or a message of that transfer is pending
C14_NeverLeftOpen ==
    \A h \in SingleSessions \cup BulkSessions :
        (io[h].rcloses = 0 \/ io[h].wcloses = 0)
            => (\E c \in cmds : c.reader = h) \/ (\E msg \in msgs : msg.h = h)

C16_WriteFailureSurfaced ==
    \A i \in 1..Len(steps) :
        WriteFailed(steps[i]) => (steps[i].done /\ steps[i].err # "")

\* the steps of handle h that called Read
ReadsOf(h) == {i \in 1..Len(steps) : steps[i].h = h /\ steps[i].read}

\* C17: a step reads at most once and at most ChunkSize bytes, its count is
\* the count it began with plus the bytes it read, and the counts of the
\* steps of one transfer never decrease
C17_OneBoundedRead ==
    /\ \A i \in 1..Len(steps) :
          /\ steps[i].n \in 0..ChunkSize
          /\ ~steps[i].read => steps[i].n = 0
          /\ steps[i].after = steps[i].before + steps[i].n
    /\ \A i, j \in 1..Len(steps) :
          (i < j /\ steps[i].h = steps[j].h) => steps[i].after <= steps[j].before
    /\ \A h \in SingleSessions \cup BulkSessions : io[h].reads = Cardinality(ReadsOf(h))

\* a transfer of more than one chunk: a step read a full chunk and a later
\* step read the rest
C17_Witness ==
    \E i, j \in 1..Len(steps) :
        /\ i < j
        /\ steps[i].h = steps[j].h
        /\ steps[i].n = ChunkSize
        /\ steps[j].n = SmallSize
        /\ steps[j].after = ChunkSize + SmallSize

\* C18: a step called once more after the terminal message of a single
\* download was handled does no read, no write and no Close and returns
\* Done=true with the "not properly initialized" error, and handling its
\* message closes nothing
C18_FurtherStepRejected ==
    /\ [](\A c \in cmds : c.extra => c.pc = "pending")
    /\ [](\A i \in 1..Len(steps) :
            steps[i].extra
                => /\ ~steps[i].read /\ ~steps[i].wrote /\ steps[i].closes = 0
                   /\ steps[i].done /\ steps[i].err = "not properly initialized"
                   /\ steps[i].after = steps[i].before)
    /\ [][\A msg \in msgs : (msg.extra /\ msg \notin msgs') => io' = io]_vars

\* the message of the extra step has been handled
C18_Witness ==
    /\ \E i \in 1..Len(steps) : steps[i].extra
    /\ msgs = {}
    /\ modalTitle = "Download Error"
    /\ \E h \in SingleSessions : io[h].rcloses >= 1 /\ io[h].wcloses = 1

\* C19: a bulk download that has started (the progress modal is shown)
\* eventually shows its summary
C19_BatchReportsSummary == (showModal /\ modalType = 4) ~> (modalType = 2)

\* the step failed: its Read returned a transport error, or its Write
\* failed or was short
StepFailed(e) == e.rerr \notin {"", "EOF"} \/ WriteFailed(e)

\* the names of the items of the bulk download that failed, at opening or in a step
FailedItems ==
    {io[h].name : h \in {g \in 1..Len(io) :
        /\ io[g].kind = "bulk"
        /\ \/ io[g].outcome # "ok"
           \/ \E i \in 1..Len(steps) : steps[i].h = g /\ StepFailed(steps[i])}}

\* the summary of a bulk download that was not cancelled is shown
BulkSummary ==
    /\ modalType = 2
    /\ modalTitle \in {"Bulk Download Complete!", "Bulk Download Finished with Errors"}

\* C20: when the summary of a bulk download without cancellation is shown
\* and exactly one of its items failed, all the others are counted as
\* successes, the failure list holds that item's name and nothing was skipped
C20_OneFailureInBatch ==
    (BulkSummary /\ Cardinality(FailedItems) = 1)
        => /\ bulkDownloadSuccesses = bulkDownloadTotal - 1
           /\ \E name \in FailedItems : bulkDownloadFailures = <<name>>
           /\ bulkDownloadTotal - bulkDownloadCurrent = 0

\* the summary of a cancelled bulk download is shown
CancelledSummary ==
    /\ modalType = 2
    /\ modalTitle = "Bulk Download Cancelled"

\* Update, case BulkDownloadProgressMsg: remaining, the items the summary
\* reports as skipped
RemainingSkipped == bulkDownloadTotal - bulkDownloadCurrent

\* C21: when the bulk download of BatchFiles items is cancelled after item 2
\* has completed and before the terminal message of item 3 is handled (the
\* summary is that of a cancelled batch and item 3 was the last one
\* dequeued), the summary counts at most 2 successes, reports the other
\* BatchFiles - 2 items as skipped and lists none of them as failed
C21_CancelAfterTwoOfFive ==
    (CancelledSummary /\ bulkDownloadTotal = BatchFiles /\ bulkDownloadCurrent = 3)
        => /\ bulkDownloadSuccesses <= 2
           /\ RemainingSkipped = BatchFiles - 2
           /\ \A i \in 1..Len(bulkDownloadFailures) :
                 bulkDownloadFailures[i] \in {FileName(1), FileName(2)}

\* C22: while a bulk download is in progress and its cancellation flag is
\* set, no step dequeues an item and no step opens a body or a file for one
C22_NothingStartedAfterCancel ==
    [][(isBulkDownloading /\ bulkCancelRequested)
       => /\ bulkDownloadQueue' = bulkDownloadQueue
          /\ bulkDownloadCurrent' = bulkDownloadCurrent
          /\ \A h \in (Len(io) + 1)..Len(io') :
                ~(io'[h].kind = "bulk" /\ io'[h].outcome \in {"create", "ok"})]_vars

\* C23: a step of a bulk item that begins when the cancellation flag of the
\* model is set reads and writes nothing, closes the body and the file and
\* returns Done=true with Err=nil
C23_StepObservesCancel ==
    \A i \in 1..Len(steps) :
        (steps[i].kind = "downloadNextFile" /\ steps[i].flag)
            => /\ ~steps[i].read /\ ~steps[i].wrote
               /\ steps[i].closes = 1
               /\ steps[i].done /\ steps[i].err = ""

BulkOpenings == SelectSeq(io, LAMBDA t : t.kind = "bulk")

\* the openings of the bulk download whose body or file is open
OpenPairs == {h \in BulkSessions : io[h].rcloses = 0 \/ io[h].wcloses = 0}

\* C25: at most one pair of body and file of a bulk download is open at any
\* time; and the command that opens an item opens the item of the file list
\* whose number is bulkDownloadCurrent, after the terminal message of every
\* item before it has been handled, and leaves no other command of the bulk
\* download to run: the items are opened in order and each at most once
C25_OneItemAtATimeInOrder ==
    /\ [](Cardinality(OpenPairs) <= 1)
    /\ [][Len(io') > Len(io) /\ io'[Len(io')].kind = "bulk"
          => /\ bulkDownloadCurrent \in 1..Len(BulkQueue(files))
             /\ io'[Len(io')].name = BulkQueue(files)[bulkDownloadCurrent].Name
             /\ \A msg \in msgs : msg.type # "BulkDownloadProgressMsg"
             /\ \A h \in BulkSessions : Reported(h)
             /\ bulkDownloadSuccesses + Len(bulkDownloadFailures) = bulkDownloadCurrent - 1
             /\ \A c \in cmds' : c.kind = "downloadNextFile" => c.pc = "reading"]_vars

\* every item of the long bulk download was opened and the summary is shown
C25_Witness ==
    /\ Len(BulkOpenings) = BatchFiles
    /\ \E i \in 1..BatchFiles : BulkOpenings[i].outcome = "open"
    /\ BulkSummary

\* the Results that Update has handled, in order
Handled == SubSeq(received, 1, Len(received) - Len(inbox))

\* C26: every container in foundItems is one whose ContainerFound event
\* carried IsPublic=true and was handled, and every handled ContainerFound
\* event is in foundItems exactly when it carried IsPublic=true
C26_OnlyPublicDisplayed ==
    /\ \A i \in 1..Len(foundItems) :
          foundItems[i].Type = ResultContainerFound
              => /\ foundItems[i].IsPublic
                 /\ \E j \in 1..Len(Handled) : Handled[j] = foundItems[i]
    /\ \A j \in 1..Len(Handled) :
          Handled[j].Type = ResultContainerFound
              => (Handled[j].IsPublic <=> \E i \in 1..Len(foundItems) : foundItems[i] = Handled[j])

\* the events of a public and of a private container have been handled
C26_Witness ==
    /\ \E j \in 1..Len(Handled) :
          Handled[j].Type = ResultContainerFound /\ ~Handled[j].IsPublic
    /\ \E j \in 1..Len(Handled) :
          Handled[j].Type = ResultContainerFound /\ Handled[j].IsPublic
    /\ \E i \in 1..Len(foundItems) : foundItems[i].Type = ResultContainerFound

\* C27: the command of a single download empties a file that is already at
\* its path only when it was returned for the answer 'y' to the overwrite
\* prompt
C27_OverwriteAsksFirst ==
    [][\A c \in cmds :
          (/\ c.kind = "startSingleDownload"
           /\ c \notin cmds'
           /\ Len(io') > Len(io)
           /\ io'[Len(io')].truncated)
              => c.confirmed]_vars

\* the items of the bulk download that wait: the one whose command is
\* pending and those in the queue
PendingItems == {c.file : c \in {d \in cmds : d.kind = "downloadNextFile" /\ d.total > 0}}
QueuedItems == {bulkDownloadQueue[i] : i \in 1..Len(bulkDownloadQueue)}

\* the listing returned the entry as an older version of its blob
Historical(f) == f.VersionId # "" /\ ~f.IsCurrentVersion

\* C28: no item of a bulk download is an entry that the listing returned as
\* an older version, and no two items of it have the same name
C28_OnlyLatestQueued ==
    /\ \A f \in PendingItems \cup QueuedItems : ~Historical(f)
    /\ \A i, j \in 1..Len(bulkDownloadQueue) :
          i # j => bulkDownloadQueue[i].Name # bulkDownloadQueue[j].Name
    /\ \A f \in PendingItems, g \in QueuedItems : f.Name # g.Name

\* the openings that failed
FailedOpenings == {h \in 1..Len(io) : io[h].outcome # "ok"}

\* C29: an opening that failed leaves nothing open and no file: the body it
\* opened before os.Create failed is closed, exactly once, and no file was
\* made or emptied; nothing is read from or written to it. Update answers
\* the message of a failed single opening with the "Download Error" alert
\* and no further command, and that of a failed opening of a bulk item by
\* adding the item to the failure list
C29_FailedOpenIsTerminal ==
    /\ [](\A h \in FailedOpenings :
            /\ ~io[h].sink /\ ~io[h].truncated
            /\ io[h].rcloses = (IF io[h].outcome = "create" THEN 1 ELSE 0)
            /\ io[h].wcloses = 0
            /\ io[h].reads = 0 /\ io[h].written = 0)
    /\ [][\A msg \in msgs :
            (msg \notin msgs' /\ msg.Err \in OpenOutcomes \ {"ok"})
                => IF msg.type = "SingleDownloadStartedMsg"
                   THEN /\ showModal' /\ modalType' = 2 /\ modalTitle' = "Download Error"
                        /\ ~isSingleDownloading'
                        /\ cmds' = cmds
                   ELSE /\ msg.type = "BulkDownloadProgressMsg"
                        /\ msg.Done
                        /\ bulkDownloadFailures' = Append(bulkDownloadFailures, msg.File)
                        /\ bulkDownloadSuccesses' = bulkDownloadSuccesses]_vars

\* os.Create failed after the body was opened, and Update has reported it
C29_Witness ==
    \E h \in FailedOpenings :
        /\ io[h].outcome = "create"
        /\ io[h].rcloses = 1
        /\ msgs = {}
        /\ \/ io[h].kind = "single" /\ modalTitle = "Download Error"
           \/ /\ io[h].kind = "bulk"
              /\ \E i \in 1..Len(bulkDownloadFailures) : bulkDownloadFailures[i] = io[h].name

\* C30: when the summary of a bulk download is shown, the successes, the
\* failures and the items reported as skipped add up to bulkDownloadTotal,
\* with no success in a bulk download of no item; and while a bulk download
\* is in progress the queue holds the items not yet dequeued
C30_SummaryAddsUp ==
    /\ (BulkSummary \/ CancelledSummary)
          => /\ bulkDownloadSuccesses + Len(bulkDownloadFailures) + RemainingSkipped
                    = bulkDownloadTotal
             /\ bulkDownloadTotal = 0 => bulkDownloadSuccesses = 0
    /\ isBulkDownloading
          => Len(bulkDownloadQueue) = bulkDownloadTotal - bulkDownloadCurrent

\* ========================================================== consumer claims
\* the events Update has handled: those received and no longer in the inbox
HandledCount == Len(received) - Len(inbox)

\* the receives on Results that are waiting: the one of Init and one per
\* handled event other than ScanFinished, less those that returned
PendingReceives ==
    1 + Cardinality({i \in 1..HandledCount : received[i].Type # ResultScanFinished})
      - Len(received)

\* C31: at most one receive on Results is pending at any time: the one Init
\* issued or the one the last handled event returned; an event is handled
\* before the next receive is issued, none is issued once ScanFinished is
\* handled, and every receive returns an event that was sent, never the zero
\* value of the closed channel
C31_OnePendingReceive ==
    /\ PendingReceives \in {0, 1}
    /\ armed <=> PendingReceives = 1
    /\ armed => inbox = <<>>
    /\ Len(inbox) <= 1
    /\ (\E i \in 1..HandledCount : received[i].Type = ResultScanFinished)
          => ~armed /\ inbox = <<>>
    /\ Len(received) <= Len(sent)
    /\ \A i \in 1..Len(received) : received[i] = sent[i]

\* the scan is over: every event was received and handled, ScanFinished last
C31_Witness ==
    /\ closed
    /\ Len(sent) >= 5
    /\ received = sent
    /\ inbox = <<>>
    /\ ~armed
    /\ received[Len(received)].Type = ResultScanFinished

\* the account headers of the list
Headers(items) == {i \in 1..Len(items) : items[i].Type = ResultAccountFound}

\* the nearest account header above entry i of the list, 0 if there is none
HeaderAbove(items, i) ==
    IF \E k \in Headers(items) : k < i
    THEN CHOOSE k \in Headers(items) :
            k < i /\ \A l \in Headers(items) : l < i => l <= k
    ELSE 0

\* C32: the flat list is a tree: every account has at most one header and the
\* nearest header above a container is the header of the container's account
C32_ListIsTree ==
    /\ \A i, k \in Headers(foundItems) :
          foundItems[i].AccountName = foundItems[k].AccountName => i = k
    /\ \A i \in 1..Len(foundItems) :
          foundItems[i].Type = ResultContainerFound
             => /\ HeaderAbove(foundItems, i) # 0
                /\ foundItems[HeaderAbove(foundItems, i)].AccountName
                      = foundItems[i].AccountName

\* C35: with Concurrency 0 and an account to scan the dispatcher never gets
\* past its first token: no worker starts and nothing is ever sent, not even
\* ScanFinished; with no account to scan, ScanFinished is the only event
C35_ZeroConcurrencyBlocks ==
    /\ Concurrency = 0 /\ Len(AccountNames) >= 1
          => /\ dpc \in {"start", "loop", "acquire"}
             /\ di = 1
             /\ sem = 0
             /\ \A w \in Workers : wpc[w] = "idle"
             /\ sent = <<>>
             /\ ~closed
    /\ Len(AccountNames) = 0
          => /\ \A i \in 1..Len(sent) : sent[i].Type = ResultScanFinished
             /\ Len(sent) <= 1
             /\ dpc \in {"close", "exited"} => Len(sent) = 1

\* the dispatcher is at its first token, which it never gets
C35_Witness ==
    /\ Concurrency = 0
    /\ Len(AccountNames) >= 1
    /\ dpc = "acquire"
    /\ wg = 1

\* C39: handling ScanFinished only stops the scanning indicator, for good: the
\* focused pane, the selection, the file list, the list of containers and
\* the downloads are as they were
C39_ScanFinishedOnlyStopsIndicator ==
    /\ [][isScanning' => isScanning]_vars
    /\ [][Len(inbox) > 0 /\ Head(inbox).Type = ResultScanFinished /\ inbox' = Tail(inbox)
             => /\ ~isScanning'
                /\ state' = state
                /\ foundItems' = foundItems
                /\ UNCHANGED downloadVars]_vars

\* C33: a listing that was fetched for another container than the selected
\* one changes neither the file list nor the loading indicator, and while
\* the listing of the selected container is awaited the indicator stays on
\* and the list stays empty
C33_ListingOfSelectedContainer ==
    /\ [][\A msg \in msgs :
            msg.type = "FileListMsg" /\ msg \notin msgs'
            /\ <<msg.account, msg.container>> # <<selectedAccount, selectedContainer>>
               => files' = files /\ isLoadingFiles' = isLoadingFiles]_vars
    /\ []((\E c \in cmds : c.kind = "fetchFiles" /\ c.account = selectedAccount
                           /\ c.container = selectedContainer)
             => isLoadingFiles /\ files = <<>>)

\* C37: when the final message of a single download is handled with the
\* cancellation flag set, the alert says 'Download Cancelled' whether or not
\* the message carries an error, and the flag is cleared
C37_CancelledOutranksError ==
    [][\A msg \in msgs :
          msg.type = "SingleDownloadProgressMsg" /\ msg.Done /\ msg \notin msgs'
          /\ singleDownloadCancelled
             => /\ showModal'
                /\ modalType' = 2
                /\ modalTitle' = "Download Cancelled"
                /\ ~singleDownloadCancelled']_vars

\* the final step failed after ESC and the alert says cancelled
C37_Witness ==
    /\ showModal
    /\ modalType = 2
    /\ modalTitle = "Download Cancelled"
    /\ ~singleDownloadCancelled
    /\ ~isSingleDownloading
    /\ escs > 0
    /\ Len(steps) > 0
    /\ steps[Len(steps)].done
    /\ steps[Len(steps)].err # ""
    /\ msgs = {}

\* C34: while a transfer is in progress its progress modal is displayed, so
\* that no key can start another one, and the two kinds of transfer are
\* never in progress together
C34_ProgressModalStays ==
    /\ isSingleDownloading => showModal /\ modalType = 5
    /\ isBulkDownloading => showModal /\ modalType = 4
    /\ ~(isSingleDownloading /\ isBulkDownloading)

\* a key press that has an effect while a progress modal is shown
ProgressKey(key) ==
    /\ showModal
    /\ modalType \in {4, 5}
    /\ UpdateKey(key)

\* what ESC leaves alone on a progress modal: all but the cancellation flag
\* of the transfer shown, the title and, for a single download, the body it closes
EscOnlyCancels ==
    /\ showModal'
    /\ modalType' = modalType
    /\ cmds' = cmds
    /\ msgs' = msgs
    /\ UNCHANGED <<scannerVars, state, listVars, steps, transfers>>
    /\ UNCHANGED <<isSingleDownloading, singleDownloadBytesRead, singleDownloadTotalBytes,
                   singleDownloadReader, singleDownloadWriter>>
    /\ UNCHANGED <<isBulkDownloading, bulkDownloadQueue, bulkDownloadTotal,
                   bulkDownloadCurrent, bulkCurrentBytesRead, bulkCurrentTotalBytes,
                   bulkDownloadSuccesses, bulkDownloadFailures>>
    /\ IF modalType = 4
       THEN bulkCancelRequested' /\ singleDownloadCancelled' = singleDownloadCancelled
            /\ io' = io
       ELSE singleDownloadCancelled' /\ bulkCancelRequested' = bulkCancelRequested
            /\ \A h \in 1..Len(io) : h # singleDownloadReader => io'[h] = io[h]

\* C38 as the spec states it: on a progress modal only ESC has an effect, and
\* it only requests cancellation; no key returns a command while any modal
\* is shown
C38_ModalKeysReturnNoCommand ==
    /\ [][\A key \in Keys : ProgressKey(key) => key = "esc" /\ EscOnlyCancels]_vars
    /\ [][\A key \in Keys : showModal /\ UpdateKey(key) => cmds' = cmds]_vars

\* C38, amended: on a progress modal only ESC has an effect, and it only
\* requests cancellation; no key returns a command while a modal is shown,
\* except 'y' on the bulk confirmation, which returns the batch's first command
C38_OnlyConfirmReturnsCommand ==
    /\ [][\A key \in Keys : ProgressKey(key) => key = "esc" /\ EscOnlyCancels]_vars
    /\ [][\A key \in Keys :
            showModal /\ UpdateKey(key)
               => IF modalType = 3 /\ key \in {"y", "Y"}
                  THEN /\ modalType' = 4
                       /\ \E c \in cmds' :
                             /\ c.kind = "downloadNextFile"
                             /\ c.pc = "pending"
                             /\ c.total = bulkDownloadTotal'
                             /\ cmds' = cmds \cup {c}
                  ELSE cmds' = cmds]_vars

\* ESC has been pressed on each kind of progress modal, which is still shown
C38_Witness ==
    /\ showModal
    /\ modalType \in {4, 5}
    /\ escs > 0
    /\ modalTitle \in {"Cancelling Download...", "Cancelling Bulk Download..."}

\* C36: for a blob whose cleaned name holds ".." no directory and no file is
\* made, on either download path: the opening is rejected, or at most fails
\* in os.MkdirAll
C36_NoFileForParentPath ==
    \A h \in 1..Len(io) :
        InvalidFilename(io[h].name) => io[h].outcome \in {"invalid", "mkdir"} /\ ~io[h].sink
====
